---- MODULE Spec2Model ----
(***************************************************************************)
(* Model of the review hooks of cc-orchestrator: the per-session state     *)
(* store (hooks/state_manager.py), the review orchestrator                 *)
(* (hooks/review_orchestrator.py), the debate orchestrator                 *)
(* (hooks/debate_orchestrator.py), the quota monitor                       *)
(* (hooks/quota_monitor.py) and the todo state detector                    *)
(* (hooks/todo_state_detector.py).                                         *)
(*                                                                         *)
(* A state file <session>_<type>.json is a JSON object; it is modelled as  *)
(* a function from its keys (strings) to values together with a flag       *)
(* telling whether the file exists.  time.time() and datetime.now() of the *)
(* state store are the integer clock `now` (seconds), datetime.now() of    *)
(* the quota monitor the integer clock `clock` (minutes).                  *)
(***************************************************************************)
EXTENDS Integers, Sequences, FiniteSets, TLC

VARIABLES files, now, maxRetries, last, out, blockCalls, grants,
          pc, loc, rets, call, lock, rc,
          dbt, quotas, qfile, clock, qcall, todoRet,
          cmp, recov, comp, qprocs, gate, audit

\* the severity comparison, the recovery engine, the completion
\* orchestrator, the processes sharing the quota file, the processes
\* passing the debounce gate and the audit file of the day
lateVars == <<cmp, recov, comp, qprocs, gate, audit>>

\* the debate orchestrator, the quota monitor and the todo detector
compVars == <<dbt, quotas, qfile, clock, qcall, todoRet, lateVars>>

quotaVars == <<quotas, qfile, clock, qcall>>

\* the session state store and the review orchestrator
coreVars == <<files, now, maxRetries, last, out, blockCalls, grants,
              pc, loc, rets, call, lock, rc>>

vars == <<files, now, maxRetries, last, out, blockCalls, grants,
          pc, loc, rets, call, lock, rc,
          dbt, quotas, qfile, clock, qcall, todoRet,
          cmp, recov, comp, qprocs, gate, audit>>

\* ---------------------------------------------------------------- bounds
MaxTime == 4
MaxSkip == 2
MaxRetries == 2
MaxCount == 3
MaxAgents == 3
MaxWeight == 2
DefaultMaxRetries == 3
DefaultDebounceSeconds == 3
NumProcs == 2

Procs == 1..NumProcs

\* ------------------------------------------------------------- the domain
Sessions == {"s1", "s2"}
Stages == {"code", "plan"}
StateTypes == {"retry", "debounce", "override", "todo"}
None == -1
EmptyMap == [k \in {} |-> 0]

\* dict.get(key, default)
Get(d, k, default) == IF k \in DOMAIN d THEN d[k] ELSE default

\* d[key] = value
Put(d, k, v) == [x \in (DOMAIN d) \cup {k} |-> IF x = k THEN v ELSE d[x]]

NoFile == [exists |-> FALSE, data |-> EmptyMap]

\* ------------------------------------------------------ hooks/state_manager
read_state(f, session_id, state_type) ==
    IF f[session_id][state_type].exists
    THEN f[session_id][state_type].data
    ELSE EmptyMap

write_state(f, session_id, state_type, data) ==
    [f EXCEPT ![session_id][state_type] = [exists |-> TRUE, data |-> data]]

get_retry_count(f, session_id, stage) ==
    Get(read_state(f, session_id, "retry"), stage, 0)

increment_retry_count(f, session_id, stage) ==
    LET state == read_state(f, session_id, "retry")
        state2 == Put(state, stage, Get(state, stage, 0) + 1)
    IN  [files |-> write_state(f, session_id, "retry", state2),
         ret |-> state2[stage]]

reset_retry_count(f, session_id, stage) ==
    LET state == read_state(f, session_id, "retry")
    IN  write_state(f, session_id, "retry", Put(state, stage, 0))

get_last_call_time(f, session_id, stage) ==
    Get(read_state(f, session_id, "debounce"), stage, None)

update_last_call_time(f, session_id, stage, t) ==
    LET state == read_state(f, session_id, "debounce")
    IN  write_state(f, session_id, "debounce", Put(state, stage, t))

\* faulty variant: the window is closed on the right (<= instead of <)
should_debounce_closed(f, session_id, stage, debounce_seconds, t) ==
    LET last_call == get_last_call_time(f, session_id, stage)
    IN  IF last_call = None
        THEN FALSE
        ELSE (t - last_call) <= debounce_seconds

should_debounce(f, session_id, stage, debounce_seconds, t) ==
    LET last_call == get_last_call_time(f, session_id, stage)
    IN  IF last_call = None
        THEN FALSE
        ELSE (t - last_call) < debounce_seconds

set_override(f, session_id, skip_count, t) ==
    LET state == read_state(f, session_id, "override")
    IN  write_state(f, session_id, "override",
                    Put(Put(state, "skip_count", skip_count), "set_at", t))

\* faulty variant: the test for a remaining token is off by one (>= 0)
check_and_consume_override_off(f, session_id) ==
    LET state == read_state(f, session_id, "override")
        skip_count == Get(state, "skip_count", 0)
    IN  IF skip_count >= 0
        THEN [files |-> write_state(f, session_id, "override",
                                    Put(state, "skip_count", skip_count - 1)),
              ret |-> TRUE]
        ELSE [files |-> f, ret |-> FALSE]

check_and_consume_override(f, session_id) ==
    LET state == read_state(f, session_id, "override")
        skip_count == Get(state, "skip_count", 0)
    IN  IF skip_count > 0
        THEN [files |-> write_state(f, session_id, "override",
                                    Put(state, "skip_count", skip_count - 1)),
              ret |-> TRUE]
        ELSE [files |-> f, ret |-> FALSE]

\* skip tokens the override file of a session holds
SkipCount(f, s) == Get(read_state(f, s, "override"), "skip_count", 0)

\* ------------------------------------------------------ hooks/adapters/base
\* Severity, in declaration order (list(Severity)); __lt__ compares indexes.
SeverityList == <<"OK", "LOW", "MEDIUM", "HIGH", "CRITICAL">>
Severities == {SeverityList[i] : i \in 1..Len(SeverityList)}

index(sev) == (CHOOSE i \in 1..Len(SeverityList) : SeverityList[i] = sev) - 1

\* faulty variant: equal severities compare as lower
lt_or_equal(a, b) == index(a) <= index(b)

lt(a, b) == index(a) < index(b)

ReviewResult(adapter_name, severity, success) ==
    [adapter_name |-> adapter_name, severity |-> severity, success |-> success]

\* ------------------------------------------------ hooks/review_orchestrator
AdapterNames == <<"gemini", "copilot">>
Policies == {"conservative", "highest_severity", "majority_vote",
             "weighted_vote", "other"}

\* max(xs) of Python over a non-empty list: the first maximal element, an
\* item replacing the running maximum only when maximum < item.
RECURSIVE MaxFrom(_, _, _)
MaxFrom(xs, i, m) ==
    IF i > Len(xs) THEN m
    ELSE MaxFrom(xs, i + 1, IF lt(m, xs[i]) THEN xs[i] ELSE m)

\* faulty variant: the comparison is turned round (the minimum is returned)
RECURSIVE MinFrom(_, _, _)
MinFrom(xs, i, m) ==
    IF i > Len(xs) THEN m
    ELSE MinFrom(xs, i + 1, IF lt(xs[i], m) THEN xs[i] ELSE m)

max_turned(xs) == MinFrom(xs, 2, xs[1])

max(xs) == MaxFrom(xs, 2, xs[1])

\* [r.severity for r in results if r.success]
RECURSIVE SuccessSeverities(_)
SuccessSeverities(results) ==
    IF results = <<>> THEN <<>>
    ELSE (IF Head(results).success THEN <<Head(results).severity>> ELSE <<>>)
         \o SuccessSeverities(Tail(results))

\* the keys of Counter(xs) / of a dict filled in the order of xs
RECURSIVE Keys(_)
Keys(xs) ==
    IF xs = <<>> THEN <<>>
    ELSE LET rest == Keys(SubSeq(xs, 1, Len(xs) - 1))
             x == xs[Len(xs)]
         IN  IF \E j \in 1..Len(rest) : rest[j] = x THEN rest
             ELSE Append(rest, x)

Count(xs, x) == Cardinality({j \in 1..Len(xs) : xs[j] = x})

MaxInt(S) == CHOOSE m \in S : \A n \in S : n <= m

\* SelectSeq with a test that may use LET-bound values
RECURSIVE Filter(_, _)
Filter(xs, keep) ==
    IF xs = <<>> THEN <<>>
    ELSE (IF Head(xs) \in keep THEN <<Head(xs)>> ELSE <<>>)
         \o Filter(Tail(xs), keep)

\* faulty variant: a tie goes to the lowest of the tied severities
majority_vote_lowest(severities) ==
    LET keys == Keys(severities)
        max_count == MaxInt({Count(severities, keys[j]) : j \in 1..Len(keys)})
        candidates == Filter(keys, {s \in Severities :
                                       Count(severities, s) = max_count})
    IN  max_turned(candidates)

majority_vote(severities) ==
    LET keys == Keys(severities)
        max_count == MaxInt({Count(severities, keys[j]) : j \in 1..Len(keys)})
        candidates == Filter(keys, {s \in Severities :
                                       Count(severities, s) = max_count})
    IN  max(candidates)

\* faulty variant: the configured weights are ignored
Score_flat(results, weights, name) ==
    LET js == {j \in 1..Len(results) :
                  results[j].success /\ results[j].adapter_name = name}
        j == MaxInt(js)
    IN  index(results[j].severity)

\* weighted_scores[result.adapter_name] = severity_score * weight, for the
\* successful results in list order (a later result of a name overwrites)
Score(results, weights, name) ==
    LET js == {j \in 1..Len(results) :
                  results[j].success /\ results[j].adapter_name = name}
        j == MaxInt(js)
    IN  index(results[j].severity) * Get(weights, name, 1)

\* max(weighted_scores, key=weighted_scores.get): the first key, in
\* insertion order, whose score no earlier key reaches and no key exceeds
RECURSIVE MaxKeyFrom(_, _, _, _, _)
MaxKeyFrom(results, weights, names, i, m) ==
    IF i > Len(names) THEN m
    ELSE MaxKeyFrom(results, weights, names, i + 1,
                    IF Score(results, weights, names[i])
                          > Score(results, weights, m)
                    THEN names[i] ELSE m)

SuccessNames(results) ==
    LET ok == SelectSeq(results, LAMBDA r : r.success)
    IN  Keys([j \in 1..Len(ok) |-> ok[j].adapter_name])

weighted_vote(results, weights) ==
    LET names == SuccessNames(results)
        max_adapter == MaxKeyFrom(results, weights, names, 2, names[1])
        j == CHOOSE k \in 1..Len(results) :
                 /\ results[k].adapter_name = max_adapter
                 /\ \A h \in 1..(k - 1) : results[h].adapter_name # max_adapter
    IN  results[j].severity

\* faulty variant: with no successful outcome the verdict fails closed
resolve_conflict_closed(results, policy, weights) ==
    LET severities == SuccessSeverities(results)
    IN  IF severities = <<>> THEN "CRITICAL"
        ELSE IF policy = "conservative" \/ policy = "highest_severity"
             THEN max(severities)
        ELSE IF policy = "majority_vote" THEN majority_vote(severities)
        ELSE IF policy = "weighted_vote" THEN weighted_vote(results, weights)
        ELSE max(severities)

resolve_conflict(results, policy, weights) ==
    LET severities == SuccessSeverities(results)
    IN  IF severities = <<>> THEN "OK"
        ELSE IF policy = "conservative" \/ policy = "highest_severity"
             THEN max(severities)
        ELSE IF policy = "majority_vote" THEN majority_vote(severities)
        ELSE IF policy = "weighted_vote" THEN weighted_vote(results, weights)
        ELSE max(severities)

\* What the review call of an adapter does: it raises, or it returns a
\* result (a failed result always carries severity OK).
Behaviours ==
    {[raises |-> TRUE, result |-> ReviewResult("x", "OK", FALSE)]}
    \cup {[raises |-> FALSE, result |-> ReviewResult("x", "OK", FALSE)]}
    \cup {[raises |-> FALSE, result |-> ReviewResult("x", sev, TRUE)] :
             sev \in Severities}

\* the ReviewResult collected for one adapter
Collected(name, b) ==
    IF b.raises THEN ReviewResult(name, "OK", FALSE)
    ELSE ReviewResult(name, b.result.severity, b.result.success)

Orders(n) ==
    {p \in [1..n -> 1..n] : \A i, j \in 1..n : i # j => p[i] # p[j]}

\* faulty variant: the first review that raises ends the collection
run_parallel_reviews_raising(adapters, parallel, behaviour, order) ==
    LET asked == IF parallel /\ Len(adapters) > 1
                 THEN [i \in 1..Len(adapters) |-> adapters[order[i]]]
                 ELSE adapters
        raised == {i \in 1..Len(asked) : behaviour[asked[i]].raises}
        n == IF raised = {} THEN Len(asked)
             ELSE (CHOOSE i \in raised : \A k \in raised : i <= k) - 1
    IN  [i \in 1..n |-> Collected(asked[i], behaviour[asked[i]])]

\* adapters: the available adapters, in the order of self.adapters;
\* behaviour: what each one's review does; order: the order in which the
\* futures complete (used by the thread pool branch only)
run_parallel_reviews(adapters, parallel, behaviour, order) ==
    IF adapters = <<>> THEN <<>>
    ELSE IF parallel /\ Len(adapters) > 1
         THEN [i \in 1..Len(adapters) |->
                  Collected(adapters[order[i]], behaviour[adapters[order[i]]])]
         ELSE [i \in 1..Len(adapters) |->
                  Collected(adapters[i], behaviour[adapters[i]])]

\* faulty variant: the token is looked at but not consumed
check_override_peek(f, session_id, cfg) ==
    IF ~cfg.override_enabled THEN [files |-> f, ret |-> FALSE]
    ELSE IF cfg.skip_review_env THEN [files |-> f, ret |-> TRUE]
    ELSE [files |-> f, ret |-> SkipCount(f, session_id) > 0]

check_override(f, session_id, cfg) ==
    IF ~cfg.override_enabled THEN [files |-> f, ret |-> FALSE]
    ELSE IF cfg.skip_review_env THEN [files |-> f, ret |-> TRUE]
    ELSE check_and_consume_override(f, session_id)

\* faulty variant: the stage list is tested the wrong way round
check_debounce_stages(f, session_id, stage, cfg, t) ==
    IF ~cfg.debounce_enabled THEN FALSE
    ELSE IF stage \in cfg.debounce_stages THEN FALSE
    ELSE should_debounce(f, session_id, stage, cfg.debounce_seconds, t)

check_debounce(f, session_id, stage, cfg, t) ==
    IF ~cfg.debounce_enabled THEN FALSE
    ELSE IF stage \notin cfg.debounce_stages THEN FALSE
    ELSE should_debounce(f, session_id, stage, cfg.debounce_seconds, t)

\* The message as the list of its parts.
build_system_message(results, final_severity) ==
    IF final_severity = "OK" THEN <<"review_passed">>
    ELSE <<"issues_found">>
         \o (IF final_severity \in {"CRITICAL", "HIGH"}
             THEN <<"please_fix">> ELSE <<>>)

Range(xs) == {xs[j] : j \in 1..Len(xs)}

\* faulty variant: the retry count is compared with <= (one block too many)
should_block_off(final_severity, retry_count, max_retries) ==
    /\ final_severity \in {"CRITICAL", "HIGH"}
    /\ retry_count <= max_retries

\* the retry logic: not should_continue
should_block(final_severity, retry_count, max_retries) ==
    /\ final_severity \in {"CRITICAL", "HIGH"}
    /\ retry_count < max_retries

\* orchestrate: f the state files, t the clock, rv the adapters of this
\* process and the list run_parallel_reviews returns when it is reached.
orchestrate(f, session_id, stage, cfg, rv, t, max_retries) ==
    LET o == check_override(f, session_id, cfg)
    IN  IF o.ret
        THEN [files |-> o.files, gate |-> "override", decision |-> "continue",
              message |-> <<"skipped_by_override">>, results |-> <<>>,
              final_severity |-> "OK", dispatched |-> {},
              time_at_dispatch |-> None]
        ELSE IF check_debounce(o.files, session_id, stage, cfg, t)
        THEN [files |-> o.files, gate |-> "debounce", decision |-> "continue",
              message |-> <<>>, results |-> <<>>,
              final_severity |-> "OK", dispatched |-> {},
              time_at_dispatch |-> None]
        ELSE
          LET f1 == update_last_call_time(o.files, session_id, stage, t)
              results == rv.results
              final_severity == resolve_conflict(results, cfg.policy, cfg.weights)
              system_message == build_system_message(results, final_severity)
              retry_count == get_retry_count(f1, session_id, stage)
              blocks == should_block(final_severity, retry_count, max_retries)
              warns == /\ final_severity \in {"CRITICAL", "HIGH"}
                       /\ ~blocks
          IN  [files |-> IF blocks
                         THEN increment_retry_count(f1, session_id, stage).files
                         ELSE f1,
               gate |-> "review",
               decision |-> IF blocks THEN "block" ELSE "continue",
               message |-> system_message
                           \o (IF blocks THEN <<"retry">> ELSE <<>>)
                           \o (IF warns THEN <<"max_retry_reached">> ELSE <<>>),
               results |-> results,
               final_severity |-> final_severity,
               dispatched |-> Range(rv.adapters),
               time_at_dispatch |-> get_last_call_time(f1, session_id, stage)]

\* ------------------------------------------------- the record of one call
\* last: the operation of the latest step, its arguments and what it returned.
Call(op, s, g, arg, retB, retN) ==
    [op |-> op, session |-> s, stage |-> g, arg |-> arg,
     retB |-> retB, retN |-> retN]

NoCall == Call("none", "s1", "code", 0, FALSE, 0)

\* the configuration when config.json is absent
DefaultConfig ==
    [override_enabled |-> TRUE, skip_review_env |-> FALSE,
     debounce_enabled |-> TRUE, debounce_stages |-> {"code"},
     debounce_seconds |-> DefaultDebounceSeconds,
     policy |-> "conservative", weights |-> EmptyMap,
     parallel_execution |-> TRUE]

\* out: what the latest orchestrate call returned and did, its config and
\* the skip tokens the session held when it began
Out(r, cfg, skip_before) ==
    [skip_before |-> skip_before, gate |-> r.gate, decision |-> r.decision, message |-> r.message,
     results |-> r.results, final_severity |-> r.final_severity,
     dispatched |-> r.dispatched, time_at_dispatch |-> r.time_at_dispatch,
     cfg |-> cfg]

NoOut ==
    [skip_before |-> 0, gate |-> "none", decision |-> "none", message |-> <<>>,
     results |-> <<>>, final_severity |-> "OK", dispatched |-> {},
     time_at_dispatch |-> None, cfg |-> DefaultConfig]

\* rc: the inputs of resolve_conflict, the severity it returned for the
\* list as first given (none before the first call) and for the list as
\* it is now
NoResolve ==
    [results |-> <<>>, policy |-> "conservative", weights |-> EmptyMap,
     first |-> "none", verdict |-> "none"]

procVars == <<pc, loc, rets, call, lock, rc>>
orchVars == <<out, blockCalls>>

\* ------------------------------------------------------------------ Init
\* No state file exists; the clock starts at 0.
InitFiles ==
    /\ files = [s \in Sessions |-> [t \in StateTypes |-> NoFile]]
    /\ now = 0
    /\ last = NoCall
    /\ out = NoOut
    /\ blockCalls = [s \in Sessions |-> [g \in Stages |-> 0]]
    /\ grants = [s \in Sessions |-> [n |-> 0, trues |-> 0]]
    /\ pc = [p \in Procs |-> "idle"]
    /\ loc = [p \in Procs |-> EmptyMap]
    /\ rets = <<>>
    /\ call = [p \in Procs |-> NoCall]
    /\ lock = [s \in Sessions |-> [t \in StateTypes |-> 0]]

\* dbt: no debate call yet; quotas: QuotaMonitor.quotas of a process that
\* found no quota file (qfile); clock: datetime.now() in minutes; qcall: no
\* QuotaMonitor method called yet; todoRet: detect_completion not called yet
NoDebate == [op |-> "none"]
NoQuotaCall == [op |-> "none"]
NoTodoRet == [op |-> "none"]
NoQuotaFile == [exists |-> FALSE]

\* the quota monitor of a process that found no quota file
IdleQuota ==
    /\ quotas = EmptyMap
    /\ qfile = NoQuotaFile
    /\ clock = 0
    /\ qcall = NoQuotaCall

Idle == [op |-> "none"]

InitLate ==
    /\ cmp = Idle
    /\ recov = Idle
    /\ comp = Idle
    /\ qprocs = Idle
    /\ gate = Idle
    /\ audit = <<>>

InitComp ==
    /\ dbt = NoDebate
    /\ IdleQuota
    /\ todoRet = NoTodoRet
    /\ InitLate

InitBase ==
    /\ InitFiles
    /\ InitComp

InitStore ==
    /\ InitBase
    /\ rc = NoResolve

\* --------------------------------------- the state store, called directly
Tick ==
    /\ now < MaxTime
    /\ now' = now + 1
    /\ last' = Call("tick", "s1", "code", 0, FALSE, 0)
    /\ UNCHANGED <<compVars, files, maxRetries, orchVars, grants, procVars>>

UpdateLastCallTime(s, g) ==
    /\ files' = update_last_call_time(files, s, g, now)
    /\ last' = Call("update_last_call_time", s, g, 0, FALSE, 0)
    /\ UNCHANGED <<compVars, now, maxRetries, orchVars, grants, procVars>>

ShouldDebounce(s, g, w) ==
    /\ last' = Call("should_debounce", s, g, w,
                    should_debounce(files, s, g, w, now), 0)
    /\ UNCHANGED <<compVars, files, now, maxRetries, orchVars, grants, procVars>>

SetOverride(s, n) ==
    /\ files' = set_override(files, s, n, now)
    /\ last' = Call("set_override", s, "code", n, FALSE, 0)
    /\ grants' = [grants EXCEPT ![s] = [n |-> n, trues |-> 0]]
    /\ UNCHANGED <<compVars, now, maxRetries, orchVars, procVars>>

CheckAndConsumeOverride(s) ==
    /\ LET r == check_and_consume_override(files, s)
       IN  /\ files' = r.files
           /\ last' = Call("check_and_consume_override", s, "code", 0, r.ret, 0)
           /\ grants' = IF r.ret
                        THEN [grants EXCEPT ![s].trues = @ + 1]
                        ELSE grants
    /\ UNCHANGED <<compVars, now, maxRetries, orchVars, procVars>>

\* ------------------------------------------------ one orchestrate call
\* A hook process: ReviewOrchestrator() and orchestrate(stage, hook_input)
\* for the session of hook_input, with the config the process loaded, the
\* adapters that are available to it and what their reviews do.
Orchestrate(s, g, cfg, adapters, behaviour, order) ==
    \E r \in {orchestrate(files, s, g, cfg,
                          [adapters |-> adapters,
                           results |-> run_parallel_reviews(
                               adapters, cfg.parallel_execution, behaviour, order)],
                          now, maxRetries)} :
        /\ files' = r.files
        /\ out' = Out(r, cfg, SkipCount(files, s))
        /\ last' = Call("orchestrate", s, g, 0, FALSE, 0)
        /\ blockCalls' = IF r.decision = "block"
                         THEN [blockCalls EXCEPT ![s][g] = @ + 1]
                         ELSE blockCalls
        /\ UNCHANGED <<compVars, now, maxRetries, grants, procVars>>

\* set_override called for a session whose tokens the hook consumes
HookSetOverride(s, n) ==
    /\ files' = set_override(files, s, n, now)
    /\ last' = Call("set_override", s, "code", n, FALSE, 0)
    /\ UNCHANGED <<compVars, now, maxRetries, orchVars, grants, procVars>>

\* The hook of one session and one stage, with one reviewer: the config of
\* each call is the default one or differs from it in one setting.
HookSessions == {"s1"}
HookStages == {"code"}

GateConfigs ==
    {DefaultConfig,
     [DefaultConfig EXCEPT !.override_enabled = FALSE],
     [DefaultConfig EXCEPT !.skip_review_env = TRUE],
     [DefaultConfig EXCEPT !.debounce_enabled = FALSE],
     [DefaultConfig EXCEPT !.debounce_stages = {"plan"}]}

Init ==
    /\ InitStore
    /\ maxRetries \in 0..MaxRetries

Next ==
    \/ Tick
    \/ \E s \in HookSessions, n \in 1..MaxSkip : HookSetOverride(s, n)
    \/ \E s \in HookSessions, g \in HookStages, cfg \in GateConfigs :
          Orchestrate(s, g, cfg, <<>>, EmptyMap, <<>>)
    \/ \E s \in HookSessions, g \in HookStages, cfg \in GateConfigs,
          b \in Behaviours :
          Orchestrate(s, g, cfg, <<"gemini">>, [a \in {"gemini"} |-> b], <<1>>)

Spec == Init /\ [][Next]_vars

\* ------------------------------------------------ the gates, as claimed
\* the override gate fires: enabled, and the environment variable is set
\* or the session holds a token
OverrideFires(f, s, cfg) ==
    /\ cfg.override_enabled
    /\ (cfg.skip_review_env \/ SkipCount(f, s) > 0)

\* (session, stage) was recorded less than the window ago
RecentlyCalled(f, s, g, cfg, t) ==
    /\ f[s]["debounce"].exists
    /\ g \in DOMAIN f[s]["debounce"].data
    /\ t - f[s]["debounce"].data[g] < cfg.debounce_seconds

DebounceFires(f, s, g, cfg, t) ==
    /\ cfg.debounce_enabled
    /\ g \in cfg.debounce_stages
    /\ RecentlyCalled(f, s, g, cfg, t)

RetryCount(f, s, g) ==
    IF f[s]["retry"].exists /\ g \in DOMAIN f[s]["retry"].data
    THEN f[s]["retry"].data[g] ELSE 0

Contains(xs, x) == \E j \in 1..Len(xs) : xs[j] = x

\* blocked calls and the stored count stay within max_retries
C1_AtMost ==
    \A s \in Sessions, g \in Stages :
        /\ blockCalls[s][g] <= maxRetries
        /\ RetryCount(files, s, g) <= maxRetries

\* a call at the maximum continues; a blocked call was below it
C1_Step ==
    last'.op = "orchestrate" =>
        LET s == last'.session
            g == last'.stage
        IN  /\ maxRetries' = maxRetries
            /\ RetryCount(files, s, g) = maxRetries =>
                  /\ out'.decision = "continue"
                  /\ RetryCount(files', s, g) = maxRetries
                  /\ (out'.gate = "review"
                        /\ out'.final_severity \in {"HIGH", "CRITICAL"})
                        => Contains(out'.message, "max_retry_reached")
            /\ out'.decision = "block" =>
                  /\ RetryCount(files, s, g) < maxRetries
                  /\ blockCalls'[s][g] = blockCalls[s][g] + 1

\* C1: for one (session, stage) and a fixed max_retries at most
\* max_retries orchestrate calls return "block"; once the stored retry
\* count equals max_retries every later call returns "continue", with the
\* max-retry warning when the resolved severity is HIGH or CRITICAL.
C1_RetryLimit == [][C1_Step]_vars /\ []C1_AtMost

\* max_retries = 2 calls were blocked and a CRITICAL review then continues
C1_Witness ==
    /\ maxRetries = 2
    /\ last.op = "orchestrate"
    /\ blockCalls[last.session][last.stage] = 2
    /\ RetryCount(files, last.session, last.stage) = 2
    /\ out.gate = "review"
    /\ out.final_severity = "CRITICAL"
    /\ out.decision = "continue"
    /\ Contains(out.message, "max_retry_reached")

\* what a call skipped by override returns and leaves alone
C8_SkipEffects(s, g) ==
    /\ out'.decision = "continue"
    /\ out'.message = <<"skipped_by_override">>
    /\ out'.dispatched = {}
    /\ files'[s]["debounce"] = files[s]["debounce"]
    /\ files'[s]["retry"] = files[s]["retry"]

C8_OriginalStep ==
    (/\ last'.op = "orchestrate"
     /\ out'.cfg.override_enabled
     /\ SkipCount(files, last'.session) >= 1)
    => /\ SkipCount(files', last'.session) = SkipCount(files, last'.session) - 1
       /\ C8_SkipEffects(last'.session, last'.stage)

\* C8 as stated: with override enabled and a token held orchestrate
\* consumes exactly one token and is skipped (continue, skipped-by-override
\* message, nothing dispatched, no last-call time, no retry count change).
C8_Original == [][C8_OriginalStep]_vars

C8_AmendedStep ==
    (/\ last'.op = "orchestrate"
     /\ out'.cfg.override_enabled
     /\ SkipCount(files, last'.session) >= 1)
    => /\ C8_SkipEffects(last'.session, last'.stage)
       /\ ~out'.cfg.skip_review_env =>
             SkipCount(files', last'.session)
                = SkipCount(files, last'.session) - 1
       /\ out'.cfg.skip_review_env => files' = files

\* C8, amended: with override enabled and a token held the call is skipped
\* (continue, skipped-by-override message, no agent dispatched, no
\* last-call time recorded, no retry count changed) whether or not the
\* debounce gate would fire; it consumes exactly one token unless
\* CLAUDE_SKIP_REVIEW is "1", and then it consumes none.
C8_OverrideGate == [][C8_AmendedStep]_vars

\* a token was consumed by a call that the debounce gate would have stopped
C8_Witness ==
    /\ last.op = "orchestrate"
    /\ out.gate = "override"
    /\ out.cfg = DefaultConfig
    /\ out.skip_before = 2
    /\ SkipCount(files, last.session) = 1
    /\ DebounceFires(files, last.session, last.stage, out.cfg, now)
    /\ RetryCount(files, last.session, last.stage) = 1

C9_Step ==
    last'.op = "orchestrate" =>
        LET s == last'.session
            g == last'.stage
            cfg == out'.cfg
            over == OverrideFires(files, s, cfg)
            deb == DebounceFires(files, s, g, cfg, now)
        IN  /\ (~over /\ deb) =>
                  /\ out'.decision = "continue"
                  /\ out'.message = <<>>
                  /\ out'.dispatched = {}
                  /\ files'[s]["debounce"] = files[s]["debounce"]
                  /\ files'[s]["retry"] = files[s]["retry"]
            /\ (over \/ deb) => files'[s]["debounce"] = files[s]["debounce"]
            /\ (~over /\ ~deb) =>
                  /\ files'[s]["debounce"].exists
                  /\ files'[s]["debounce"].data[g] = now
                  /\ out'.time_at_dispatch = now
            /\ out'.dispatched # {} => out'.time_at_dispatch = now

\* C9: when no override fires and (session, stage) was recorded less than
\* the window ago, debounce being enabled for the stage, orchestrate returns
\* "continue" with an empty message, dispatches no agent and leaves the
\* last-call time and the retry count as they were; the last-call time is
\* written only by a call on which neither gate fired, before any dispatch.
C9_DebounceGate == [][C9_Step]_vars

\* a call 2 seconds after a reviewed one was debounced
C9_Witness ==
    /\ last.op = "orchestrate"
    /\ out.gate = "debounce"
    /\ out.cfg = DefaultConfig
    /\ out.message = <<>>
    /\ out.skip_before = 0
    /\ files[last.session]["debounce"].exists
    /\ now - files[last.session]["debounce"].data[last.stage] = 2
    /\ RetryCount(files, last.session, last.stage) = 1

\* ------------------------------------- the review of one orchestrate call
\* Both reviewers, every policy: the debounce gate is off, so that a stage
\* is reviewed again without the clock moving.
ReviewBase == [DefaultConfig EXCEPT !.debounce_enabled = FALSE]

ReviewConfigs ==
    {[ReviewBase EXCEPT !.policy = p] : p \in Policies}
    \cup {[ReviewBase EXCEPT !.policy = "weighted_vote",
                             !.weights = [a \in {"gemini"} |-> 2]],
          [ReviewBase EXCEPT !.parallel_execution = FALSE]}

\* what a review returns without raising
Returned == {b \in Behaviours : ~b.raises}

NextReview ==
    \/ \E s \in HookSessions, g \in HookStages, cfg \in ReviewConfigs :
          Orchestrate(s, g, cfg, <<>>, EmptyMap, <<>>)
    \/ \E s \in HookSessions, g \in HookStages, cfg \in ReviewConfigs,
          a \in Range(AdapterNames), b \in Behaviours :
          Orchestrate(s, g, cfg, <<a>>, [x \in {a} |-> b], <<1>>)
    \/ \E s \in HookSessions, g \in HookStages, cfg \in ReviewConfigs,
          bs \in [Range(AdapterNames) -> Returned], order \in Orders(2) :
          Orchestrate(s, g, cfg, AdapterNames, bs, order)

SpecReview == Init /\ [][NextReview]_vars

SuccessSet(results) ==
    {results[j].severity : j \in {k \in 1..Len(results) : results[k].success}}

Highest(S) == CHOOSE x \in S : \A y \in S : index(y) <= index(x)

C2_Step ==
    (/\ last'.op = "orchestrate"
     /\ out'.gate = "review"
     /\ out'.cfg.policy \in {"conservative", "highest_severity"})
    => LET sevs == SuccessSet(out'.results)
       IN  /\ sevs # {} => out'.final_severity = Highest(sevs)
           /\ (Len(out'.results) = 2 /\ sevs = {"OK", "CRITICAL"}) =>
                 /\ out'.final_severity = "CRITICAL"
                 /\ (RetryCount(files, last'.session, last'.stage) = 0
                       /\ maxRetries > 0)
                       => /\ out'.decision = "block"
                          /\ RetryCount(files', last'.session, last'.stage) = 1

\* C2: under conservative or highest_severity the resolved severity is the
\* maximum over the successful outcomes; agents A=OK, B=CRITICAL resolve to
\* CRITICAL, and the first call for the (session, stage), max_retries > 0,
\* returns "block" and leaves the retry count at 1.
C2_Conservative == [][C2_Step]_vars

\* A=OK, B=CRITICAL were collected (B first) and the first call was blocked
C2_Witness ==
    /\ last.op = "orchestrate"
    /\ out.cfg.policy = "conservative"
    /\ out.results = <<ReviewResult("copilot", "CRITICAL", TRUE),
                       ReviewResult("gemini", "OK", TRUE)>>
    /\ out.final_severity = "CRITICAL"
    /\ out.decision = "block"
    /\ blockCalls[last.session][last.stage] = 1
    /\ RetryCount(files, last.session, last.stage) = 1

C3_Step ==
    (/\ last'.op = "orchestrate"
     /\ out'.gate = "review"
     /\ SuccessSet(out'.results) = {})
    => /\ out'.final_severity = "OK"
       /\ out'.decision = "continue"
       /\ files'[last'.session]["retry"] = files[last'.session]["retry"]

\* C3: with no successful outcome (every agent failed, or no agent was
\* there to ask) the resolved severity is OK under every policy, the call
\* returns "continue" and the retry count of (session, stage) is unchanged.
C3_FailOpen == [][C3_Step]_vars

\* both agents failed under weighted_vote after an earlier blocked call
C3_Witness ==
    /\ last.op = "orchestrate"
    /\ out.gate = "review"
    /\ out.cfg.policy = "weighted_vote"
    /\ Len(out.results) = 2
    /\ SuccessSet(out.results) = {}
    /\ out.decision = "continue"
    /\ RetryCount(files, last.session, last.stage) = 1

\* ------------------------------------------- override: the store alone
InitOverride ==
    /\ InitStore
    /\ maxRetries = DefaultMaxRetries

NextOverride ==
    \/ Tick
    \/ \E s \in Sessions, n \in 0..MaxSkip : SetOverride(s, n)
    \/ \E s \in Sessions : CheckAndConsumeOverride(s)

SpecOverride == InitOverride /\ [][NextOverride]_vars

\* a call returns true iff a token is left, and then takes just that one
C4_StepOk ==
    /\ last'.op = "set_override" =>
          SkipCount(files', last'.session) = last'.arg
    /\ last'.op = "check_and_consume_override" =>
          LET s == last'.session
          IN  /\ last'.retB = (SkipCount(files, s) > 0)
              /\ last'.retB => SkipCount(files', s) = SkipCount(files, s) - 1
              /\ ~last'.retB => files' = files

\* true returns since set_override(n), plus the tokens left, make n
C4_Counted ==
    \A s \in Sessions :
        /\ SkipCount(files, s) >= 0
        /\ grants[s].trues + SkipCount(files, s) = grants[s].n
        /\ grants[s].trues <= grants[s].n
        /\ (last.op = "check_and_consume_override" /\ last.session = s
              /\ ~last.retB) => grants[s].trues = grants[s].n

\* C4: after set_override(session, n) exactly the next n
\* check_and_consume_override calls of the session return true, each taking
\* one token, and every later call returns false; skip_count is never
\* negative, and a call that returns false writes nothing.
C4_OverrideTokens == [][C4_StepOk]_vars /\ []C4_Counted

\* set_override(s, 2), then two calls returned true and a third false
C4_Witness ==
    \E s \in Sessions :
        /\ grants[s].n = 2
        /\ grants[s].trues = 2
        /\ last = Call("check_and_consume_override", s, "code", 0, FALSE, 0)
        /\ files[s]["override"].exists

\* ------------------------------------------- debounce: the store alone
Windows == 1..DefaultDebounceSeconds

InitDebounce ==
    /\ InitStore
    /\ maxRetries = DefaultMaxRetries

NextDebounce ==
    \/ Tick
    \/ \E s \in Sessions, g \in Stages : UpdateLastCallTime(s, g)
    \/ \E s \in Sessions, g \in Stages, w \in Windows : ShouldDebounce(s, g, w)

SpecDebounce == InitDebounce /\ [][NextDebounce]_vars

\* C7: should_debounce(session, stage, w) returns true iff a last-call
\* time is recorded for (session, stage) and now minus it is strictly less
\* than w; with w = 3 a call 1 second after the record is suppressed, one 4
\* seconds after it is not, and a pair never recorded is never debounced.
C7_ShouldDebounce ==
    last.op = "should_debounce" =>
        LET d == files[last.session]["debounce"]
            recorded == d.exists /\ last.stage \in DOMAIN d.data
        IN  /\ last.retB = (recorded /\ now - d.data[last.stage] < last.arg)
            /\ (recorded /\ last.arg = 3 /\ now - d.data[last.stage] = 1)
                  => last.retB
            /\ (recorded /\ last.arg = 3 /\ now - d.data[last.stage] = 4)
                  => ~last.retB
            /\ ~recorded => ~last.retB

C7_Witness ==
    /\ last.op = "should_debounce"
    /\ last.arg = 3
    /\ ~last.retB
    /\ files[last.session]["debounce"].exists
    /\ last.stage \in DOMAIN files[last.session]["debounce"].data
    /\ now - files[last.session]["debounce"].data[last.stage] = 4

\* ------------------------------------ several hook processes, one store
\* Each process runs one StateManager method at a time.  _read_state and
\* _write_state each take the FileLock of the record for their own file
\* access and release it on return: pc[p] is the place of process p,
\* loc[p] the dict its _read_state returned, lock[s][t] the process
\* holding the lock of record (s, t) or 0, rets the calls that returned.
StateTypeOf(op) ==
    IF op = "increment_retry_count" THEN "retry" ELSE "override"

ConcOps == {"increment_retry_count", "check_and_consume_override"}

Active == {p \in Procs : pc[p] # "idle"}

ConcSetOverride(s, n) ==
    /\ Active = {}
    /\ rets = <<>>
    /\ SetOverride(s, n)

Begin(p, op, s, g) ==
    /\ pc[p] = "idle"
    /\ Len(rets) + Cardinality(Active) < MaxCount
    /\ pc' = [pc EXCEPT ![p] = "acquire_read"]
    /\ call' = [call EXCEPT ![p] = Call(op, s, g, 0, FALSE, 0)]
    /\ UNCHANGED <<compVars, files, now, maxRetries, last, orchVars, grants,
                   loc, rets, lock, rc>>

Acquire(p) ==
    /\ pc[p] \in {"acquire_read", "acquire_write"}
    /\ lock[call[p].session][StateTypeOf(call[p].op)] = 0
    /\ lock' = [lock EXCEPT ![call[p].session][StateTypeOf(call[p].op)] = p]
    /\ pc' = [pc EXCEPT ![p] = IF pc[p] = "acquire_read"
                                THEN "read" ELSE "write"]
    /\ UNCHANGED <<compVars, files, now, maxRetries, last, orchVars, grants,
                   loc, rets, call, rc>>

\* _read_state under the lock; check_and_consume_override returns False
\* at once when the dict read holds no token
Read(p) ==
    /\ pc[p] = "read"
    /\ LET c == call[p]
           state == read_state(files, c.session, StateTypeOf(c.op))
           done == /\ c.op = "check_and_consume_override"
                   /\ ~(Get(state, "skip_count", 0) > 0)
       IN  /\ loc' = [loc EXCEPT ![p] = state]
           /\ lock' = [lock EXCEPT ![c.session][StateTypeOf(c.op)] = 0]
           /\ pc' = [pc EXCEPT ![p] = IF done THEN "idle" ELSE "acquire_write"]
           /\ rets' = IF done THEN Append(rets, c) ELSE rets
    /\ UNCHANGED <<compVars, files, now, maxRetries, last, orchVars, grants, call, rc>>

\* the dict read, modified, goes to _write_state under the lock; the
\* method returns
Write(p) ==
    /\ pc[p] = "write"
    /\ LET c == call[p]
           state == loc[p]
           state2 == IF c.op = "increment_retry_count"
                     THEN Put(state, c.stage, Get(state, c.stage, 0) + 1)
                     ELSE Put(state, "skip_count",
                              Get(state, "skip_count", 0) - 1)
       IN  /\ files' = write_state(files, c.session, StateTypeOf(c.op), state2)
           /\ lock' = [lock EXCEPT ![c.session][StateTypeOf(c.op)] = 0]
           /\ rets' = Append(rets,
                             IF c.op = "increment_retry_count"
                             THEN [c EXCEPT !.retN = state2[c.stage]]
                             ELSE [c EXCEPT !.retB = TRUE])
    /\ pc' = [pc EXCEPT ![p] = "idle"]
    /\ UNCHANGED <<compVars, now, maxRetries, last, orchVars, grants, loc, call, rc>>

InitConc ==
    /\ InitStore
    /\ maxRetries = DefaultMaxRetries

NextConc ==
    \/ \E s \in HookSessions, n \in 1..MaxSkip : ConcSetOverride(s, n)
    \/ \E p \in Procs, op \in ConcOps, s \in HookSessions, g \in HookStages :
          Begin(p, op, s, g)
    \/ \E p \in Procs : Acquire(p)
    \/ \E p \in Procs : Read(p)
    \/ \E p \in Procs : Write(p)

SpecConc == InitConc /\ [][NextConc]_vars

ReturnedCalls(op, s) ==
    {j \in 1..Len(rets) : rets[j].op = op /\ rets[j].session = s}

\* C5: when k skip tokens remain for a session and several processes call
\* check_and_consume_override for it concurrently, at most k of the calls
\* return true.
C5_AtMostK ==
    \A s \in HookSessions :
        Cardinality({j \in ReturnedCalls("check_and_consume_override", s) :
                        rets[j].retB})
            <= grants[s].n

\* C6: after n concurrent increment_retry_count calls for one (session,
\* stage), starting from count c = 0, the stored count is n and the n
\* returned values are pairwise distinct (the lock of the record is held
\* across the whole read-modify-write).
C6_NoLostUpdate ==
    \A s \in HookSessions, g \in HookStages :
        LET js == {j \in ReturnedCalls("increment_retry_count", s) :
                      rets[j].stage = g}
        IN  Active = {} =>
               /\ RetryCount(files, s, g) = Cardinality(js)
               /\ \A i, j \in js : i # j => rets[i].retN # rets[j].retN

\* --------------------------------------------- resolve_conflict alone
\* The outcomes of up to MaxAgents agents with distinct names, one policy
\* and one weight table; resolve_conflict is applied to the list and to
\* its rearrangements (the order in which the futures completed).
AgentNames == {"gemini", "copilot", "claude_self"}

Outcome(name) ==
    {ReviewResult(name, "OK", FALSE)}
    \cup {ReviewResult(name, sev, TRUE) : sev \in Severities}

ResultLists ==
    UNION {{rs \in [1..n -> UNION {Outcome(a) : a \in AgentNames}] :
               \A i, j \in 1..n : i # j => rs[i].adapter_name # rs[j].adapter_name} :
           n \in 0..MaxAgents}

WeightTables ==
    UNION {[S -> 0..MaxWeight] : S \in SUBSET {"gemini", "copilot"}}

InitResolve ==
    /\ InitBase
    /\ maxRetries = DefaultMaxRetries
    /\ rc \in [results : ResultLists, policy : Policies,
               weights : WeightTables, first : {"none"}, verdict : {"none"}]

Resolve ==
    /\ rc.first = "none"
    /\ \E v \in {resolve_conflict(rc.results, rc.policy, rc.weights)} :
          rc' = [rc EXCEPT !.first = v, !.verdict = v]
    /\ UNCHANGED <<compVars, files, now, maxRetries, last, orchVars, grants,
                   pc, loc, rets, call, lock>>

\* the same outcomes, collected in another order (or in the same one again)
ResolveRearranged(order) ==
    /\ rc.first # "none"
    /\ LET rs == [i \in 1..Len(rc.results) |-> rc.results[order[i]]]
       IN  rc' = [rc EXCEPT !.results = rs,
                            !.verdict = resolve_conflict(rs, rc.policy, rc.weights)]
    /\ UNCHANGED <<compVars, files, now, maxRetries, last, orchVars, grants,
                   pc, loc, rets, call, lock>>

NextResolve ==
    \/ Resolve
    \/ \E order \in Orders(Len(rc.results)) : ResolveRearranged(order)

SpecResolve == InitResolve /\ [][NextResolve]_vars

\* C10: for every policy and fixed weights resolve_conflict returns the
\* same severity for every permutation of the same agent outcomes, and
\* again the same on a repeated call.
C10_OrderIndependent == rc.verdict = rc.first

\* ------------------------------------------- the voting policies alone
\* how many successful outcomes report sev
SuccessCount(results, sev) ==
    Cardinality({j \in 1..Len(results) :
                    results[j].success /\ results[j].severity = sev})

\* the severities no other severity occurs more often than
MostFrequent(results) ==
    {sev \in SuccessSet(results) :
        \A o \in Severities :
           SuccessCount(results, o) <= SuccessCount(results, sev)}

SuccessBag(results) ==
    [sev \in Severities |-> SuccessCount(results, sev)]

\* C11: under majority_vote resolve_conflict returns the severity that
\* occurs most often among the successful outcomes, the highest one of
\* those tied for the highest count; three agents reporting LOW, MEDIUM,
\* MEDIUM resolve to MEDIUM.
C11_MajorityVote ==
    (rc.verdict # "none" /\ rc.policy = "majority_vote") =>
       /\ SuccessSet(rc.results) # {} =>
             rc.verdict = Highest(MostFrequent(rc.results))
       /\ (/\ Len(rc.results) = 3
           /\ SuccessBag(rc.results) =
                 [sev \in Severities |->
                     IF sev = "LOW" THEN 1 ELSE IF sev = "MEDIUM" THEN 2 ELSE 0])
          => rc.verdict = "MEDIUM"

\* LOW, MEDIUM, MEDIUM were resolved to MEDIUM
C11_Witness ==
    /\ rc.policy = "majority_vote"
    /\ Len(rc.results) = 3
    /\ \A j \in 1..3 : rc.results[j].success
    /\ <<rc.results[1].severity, rc.results[2].severity,
         rc.results[3].severity>> = <<"LOW", "MEDIUM", "MEDIUM">>
    /\ rc.verdict = "MEDIUM"

\* the weight the policy uses for an agent: the configured one, else 1.0
Weight(weights, name) ==
    IF name \in DOMAIN weights THEN weights[name] ELSE 1

WeightedScore(r, weights) == Weight(weights, r.adapter_name) * index(r.severity)

\* C12: under weighted_vote resolve_conflict returns the severity of a
\* successful agent whose weight x severity rank is maximal over all
\* successful agents, with weight 1.0 for agents without a configured
\* weight; a failed agent never determines the result.
C12_WeightedVote ==
    (/\ rc.verdict # "none"
     /\ rc.policy = "weighted_vote"
     /\ SuccessSet(rc.results) # {})
    => \E j \in 1..Len(rc.results) :
          /\ rc.results[j].success
          /\ rc.results[j].severity = rc.verdict
          /\ \A k \in 1..Len(rc.results) :
                rc.results[k].success =>
                   WeightedScore(rc.results[k], rc.weights)
                      <= WeightedScore(rc.results[j], rc.weights)

\* gemini (weight 2) says MEDIUM, copilot (no weight) says HIGH and a
\* third agent failed: the verdict is gemini's
C12_Witness ==
    /\ rc.policy = "weighted_vote"
    /\ rc.weights = [a \in {"gemini"} |-> 2]
    /\ rc.results = <<ReviewResult("claude_self", "OK", FALSE),
                      ReviewResult("copilot", "HIGH", TRUE),
                      ReviewResult("gemini", "MEDIUM", TRUE)>>
    /\ rc.verdict = "MEDIUM"

\* ------------------------------------------------ hooks/debate_orchestrator
\* Only the Claude self review marks its result is_self_review.
is_self_review(r) == r.adapter_name = "claude_self"

NoSeverity == "None"

MinInt(S) == CHOOSE m \in S : \A n \in S : m <= n

\* [ordered.index(s) for s in severities]
Indices(severities) == {index(severities[j]) : j \in 1..Len(severities)}

SeveritiesOf(results) == [j \in 1..Len(results) |-> results[j].severity]

\* faulty variant: a difference of one level already counts as disagreement
needs_debate_gap1(cfg, results) ==
    IF ~cfg.enabled THEN [needed |-> FALSE, reason |-> "debate disabled"]
    ELSE LET successful == SelectSeq(results,
                               LAMBDA r : r.success /\ ~is_self_review(r))
             severities == SeveritiesOf(successful)
         IN  IF Len(successful) < 1
             THEN [needed |-> FALSE, reason |-> "not enough results"]
             ELSE IF /\ cfg.trigger_on_high
                     /\ \E j \in 1..Len(severities) :
                           severities[j] \in {"HIGH", "CRITICAL"}
             THEN [needed |-> TRUE, reason |-> "high severity found"]
             ELSE IF /\ cfg.trigger_on_disagreement
                     /\ Len(severities) >= 2
                     /\ Cardinality(Range(severities)) > 1
                     /\ MaxInt(Indices(severities))
                           - MinInt(Indices(severities)) >= 1
             THEN [needed |-> TRUE, reason |-> "significant disagreement"]
             ELSE [needed |-> FALSE, reason |-> "no debate needed"]

needs_debate(cfg, results) ==
    IF ~cfg.enabled THEN [needed |-> FALSE, reason |-> "debate disabled"]
    ELSE LET successful == SelectSeq(results,
                               LAMBDA r : r.success /\ ~is_self_review(r))
             severities == SeveritiesOf(successful)
         IN  IF Len(successful) < 1
             THEN [needed |-> FALSE, reason |-> "not enough results"]
             ELSE IF /\ cfg.trigger_on_high
                     /\ \E j \in 1..Len(severities) :
                           severities[j] \in {"HIGH", "CRITICAL"}
             THEN [needed |-> TRUE, reason |-> "high severity found"]
             ELSE IF /\ cfg.trigger_on_disagreement
                     /\ Len(severities) >= 2
                     /\ Cardinality(Range(severities)) > 1
                     /\ MaxInt(Indices(severities))
                           - MinInt(Indices(severities)) >= 2
             THEN [needed |-> TRUE, reason |-> "significant disagreement"]
             ELSE [needed |-> FALSE, reason |-> "no debate needed"]

\* faulty variant: a spread of one level settles on the lower severity
check_consensus_lower(results) ==
    LET successful == SelectSeq(results, LAMBDA r : r.success)
        severities == SeveritiesOf(successful)
    IN  IF successful = <<>>
        THEN [consensus |-> FALSE, final_severity |-> NoSeverity]
        ELSE IF Cardinality(Range(severities)) = 1
        THEN [consensus |-> TRUE, final_severity |-> severities[1]]
        ELSE IF MaxInt(Indices(severities)) - MinInt(Indices(severities)) <= 1
        THEN [consensus |-> TRUE,
              final_severity |-> SeverityList[MinInt(Indices(severities)) + 1]]
        ELSE [consensus |-> FALSE, final_severity |-> NoSeverity]

check_consensus(results) ==
    LET successful == SelectSeq(results, LAMBDA r : r.success)
        severities == SeveritiesOf(successful)
    IN  IF successful = <<>>
        THEN [consensus |-> FALSE, final_severity |-> NoSeverity]
        ELSE IF Cardinality(Range(severities)) = 1
        THEN [consensus |-> TRUE, final_severity |-> severities[1]]
        ELSE IF MaxInt(Indices(severities)) - MinInt(Indices(severities)) <= 1
        THEN [consensus |-> TRUE,
              final_severity |-> SeverityList[MaxInt(Indices(severities)) + 1]]
        ELSE [consensus |-> FALSE, final_severity |-> NoSeverity]

\* round(n / d) of Python for n >= 0, d > 0: to the nearest integer, a
\* half to the even one
round(n, d) ==
    LET q == n \div d
        r == n % d
    IN  IF 2 * r < d THEN q
        ELSE IF 2 * r > d THEN q + 1
        ELSE IF q % 2 = 0 THEN q ELSE q + 1

\* total_weight and weighted_score after the loop over results
RECURSIVE TotalWeight(_, _)
TotalWeight(results, weights) ==
    IF results = <<>> THEN 0
    ELSE (IF Head(results).success
          THEN Get(weights, Head(results).adapter_name, 1) ELSE 0)
         + TotalWeight(Tail(results), weights)

RECURSIVE WeightedSum(_, _)
WeightedSum(results, weights) ==
    IF results = <<>> THEN 0
    ELSE (IF Head(results).success
          THEN Get(weights, Head(results).adapter_name, 1)
                  * index(Head(results).severity)
          ELSE 0)
         + WeightedSum(Tail(results), weights)

debate_weighted_vote(results, weights) ==
    LET total_weight == TotalWeight(results, weights)
        weighted_score == WeightedSum(results, weights)
    IN  IF total_weight = 0 THEN "OK"
        ELSE LET rounded_score == round(weighted_score, total_weight)
             IN  IF rounded_score \in 0..(Len(SeverityList) - 1)
                 THEN SeverityList[rounded_score + 1]
                 ELSE "MEDIUM"

\* --------------------------------------- the debate rules, one call each
\* dbt holds the inputs of a call (the debate settings and a list of
\* outcomes) and, once needs_debate or _check_consensus was applied, what
\* it returned.
DebateFlags ==
    [enabled : BOOLEAN, trigger_on_disagreement : BOOLEAN,
     trigger_on_high : BOOLEAN]

InitRules ==
    /\ InitFiles
    /\ maxRetries = DefaultMaxRetries
    /\ rc = NoResolve
    /\ IdleQuota
    /\ todoRet = NoTodoRet
    /\ InitLate
    /\ dbt \in [op : {"none"}, cfg : DebateFlags, results : ResultLists]

NeedsDebate ==
    /\ dbt.op = "none"
    /\ \E r \in {needs_debate(dbt.cfg, dbt.results)} :
          dbt' = [op |-> "needs_debate", cfg |-> dbt.cfg,
                  results |-> dbt.results,
                  needed |-> r.needed, reason |-> r.reason]
    /\ UNCHANGED <<coreVars, quotaVars, todoRet, lateVars>>

CheckConsensus ==
    /\ dbt.op = "none"
    /\ \E r \in {check_consensus(dbt.results)} :
          dbt' = [op |-> "check_consensus", cfg |-> dbt.cfg,
                  results |-> dbt.results,
                  consensus |-> r.consensus,
                  final_severity |-> r.final_severity]
    /\ UNCHANGED <<coreVars, quotaVars, todoRet, lateVars>>

NextRules ==
    \/ NeedsDebate
    \/ CheckConsensus

SpecRules == InitRules /\ [][NextRules]_vars

\* the successful outcomes that are not self reviews, and their ranks
External(results) ==
    {j \in 1..Len(results) :
        results[j].success /\ ~is_self_review(results[j])}

Successful(results) == {j \in 1..Len(results) : results[j].success}

Ranks(results, J) == {index(results[j].severity) : j \in J}

Spread(results, J) == MaxInt(Ranks(results, J)) - MinInt(Ranks(results, J))

SeveritySet(results, J) == {results[j].severity : j \in J}

C13_Triggered(cfg, results) ==
    LET J == External(results)
    IN  \/ /\ cfg.trigger_on_high
           /\ SeveritySet(results, J) \cap {"HIGH", "CRITICAL"} # {}
        \/ /\ cfg.trigger_on_disagreement
           /\ Cardinality(J) >= 2
           /\ Spread(results, J) >= 2

\* C13: with debate enabled, needs_debate over the successful outcomes
\* that are not self reviews is true iff (trigger_on_high_severity is on
\* and some severity is HIGH or CRITICAL) or (trigger_on_disagreement is
\* on, at least two such outcomes exist and max rank - min rank >= 2);
\* with both triggers on {OK,OK} -> false, {OK,HIGH} -> true,
\* {LOW,MEDIUM} -> false, {OK,CRITICAL} -> true; with debate disabled or
\* no such outcome it is false.
C13_NeedsDebate ==
    dbt.op = "needs_debate" =>
       LET J == External(dbt.results)
           S == SeveritySet(dbt.results, J)
       IN  /\ (dbt.cfg.enabled /\ J # {}) =>
                 (dbt.needed <=> C13_Triggered(dbt.cfg, dbt.results))
           /\ (~dbt.cfg.enabled \/ J = {}) => ~dbt.needed
           /\ (/\ dbt.cfg.enabled
               /\ dbt.cfg.trigger_on_high
               /\ dbt.cfg.trigger_on_disagreement
               /\ Cardinality(J) = 2)
              => /\ S = {"OK"} => ~dbt.needed
                 /\ S = {"OK", "HIGH"} => dbt.needed
                 /\ S = {"LOW", "MEDIUM"} => ~dbt.needed
                 /\ S = {"OK", "CRITICAL"} => dbt.needed

\* OK against MEDIUM with only the disagreement trigger on: debate needed
C13_Witness ==
    /\ dbt.op = "needs_debate"
    /\ dbt.cfg = [enabled |-> TRUE, trigger_on_disagreement |-> TRUE,
                  trigger_on_high |-> FALSE]
    /\ dbt.results = <<ReviewResult("gemini", "OK", TRUE),
                       ReviewResult("copilot", "MEDIUM", TRUE)>>
    /\ dbt.needed
    /\ dbt.reason = "significant disagreement"

\* C14: the consensus check over the successful outcomes of a round gives:
\* all severities equal -> consensus at that severity; max rank - min rank
\* = 1 -> consensus at the higher severity; spread >= 2 -> no consensus;
\* no successful outcome -> no consensus.
C14_Consensus ==
    dbt.op = "check_consensus" =>
       LET J == Successful(dbt.results)
           S == SeveritySet(dbt.results, J)
       IN  /\ J = {} =>
                 ~dbt.consensus /\ dbt.final_severity = NoSeverity
           /\ Cardinality(S) = 1 =>
                 dbt.consensus /\ {dbt.final_severity} = S
           /\ (J # {} /\ Spread(dbt.results, J) = 1) =>
                 /\ dbt.consensus
                 /\ dbt.final_severity = Highest(S)
           /\ (J # {} /\ Spread(dbt.results, J) >= 2) =>
                 ~dbt.consensus /\ dbt.final_severity = NoSeverity

\* LOW, MEDIUM and a failed outcome: consensus at MEDIUM
C14_Witness ==
    /\ dbt.op = "check_consensus"
    /\ dbt.results = <<ReviewResult("gemini", "LOW", TRUE),
                       ReviewResult("claude_self", "OK", FALSE),
                       ReviewResult("copilot", "MEDIUM", TRUE)>>
    /\ dbt.consensus
    /\ dbt.final_severity = "MEDIUM"

\* ------------------------------------------------------------ run_debate
\* dbt is the frame of one run_debate call: its arguments (adapters,
\* initial results), the debate settings (max_rounds, weights), the loop
\* variables (round_num, current) and, once it returned, the DebateRound.
\* calls counts the reviews asked of each adapter, shown holds the other
\* agents' outcomes put into each adapter's prompt of the latest round,
\* executed the rounds that produced outcomes.
MaxRounds == 2

ExternalAdapters == <<"gemini", "copilot">>

\* faulty variant: an adapter is shown its own outcome too
Others_own(current, name) == current

\* other_results = [r for r in current_results if r.adapter_name != name]
RECURSIVE Others(_, _)
Others(current, name) ==
    IF current = <<>> THEN <<>>
    ELSE (IF Head(current).adapter_name # name THEN <<Head(current)>> ELSE <<>>)
         \o Others(Tail(current), name)

\* the body of one round from adapter i on: the adapters asked, what they
\* were shown, the outcomes appended to new_results, and whether a review
\* raised (which ends the call)
RECURSIVE RoundFrom(_, _, _, _)
RoundFrom(adapters, i, current, behaviour) ==
    IF i > Len(adapters)
    THEN [raised |-> FALSE, new_results |-> <<>>, invoked |-> <<>>]
    ELSE LET name == adapters[i]
             other_results == Others(current, name)
         IN  IF other_results = <<>>
             THEN RoundFrom(adapters, i + 1, current, behaviour)
             ELSE IF behaviour[name].raises
             THEN [raised |-> TRUE, new_results |-> <<>>, invoked |-> <<name>>]
             ELSE LET rest == RoundFrom(adapters, i + 1, current, behaviour)
                  IN  [raised |-> rest.raised,
                       new_results |-> <<Collected(name, behaviour[name])>>
                                          \o rest.new_results,
                       invoked |-> <<name>> \o rest.invoked]

\* the DebateRound returned
Returns(d, round_num, results, consensus_reached, final_severity) ==
    [d EXCEPT !.pc = "returned",
              !.current = results,
              !.ret = [round_num |-> round_num,
                       results |-> results,
                       consensus_reached |-> consensus_reached,
                       final_severity |-> final_severity]]

NoRet ==
    [round_num |-> 0, results |-> <<>>, consensus_reached |-> FALSE,
     final_severity |-> NoSeverity]

Asked(d, r) ==
    [d EXCEPT !.calls = [a \in DOMAIN d.calls |->
                            IF a \in Range(r.invoked) THEN d.calls[a] + 1
                            ELSE d.calls[a]],
              !.shown = [a \in DOMAIN d.shown |->
                            IF a \in Range(r.invoked) THEN Others(d.current, a)
                            ELSE <<>>]]

\* faulty variant: consensus ends the debate only in the last round
run_round_late(d, behaviour) ==
    LET r == RoundFrom(d.adapters, 1, d.current, behaviour)
        e == Asked(d, r)
    IN  IF r.raised THEN [e EXCEPT !.pc = "raised"]
        ELSE IF r.new_results = <<>>
        THEN Returns(e, d.max_rounds + 1, d.current, FALSE,
                     debate_weighted_vote(d.current, d.weights))
        ELSE LET c == check_consensus(r.new_results)
                 f == [e EXCEPT !.executed = @ + 1]
             IN  IF d.round_num < d.max_rounds + 1
                 THEN [f EXCEPT !.round_num = @ + 1,
                                !.current = r.new_results]
                 ELSE IF c.consensus
                 THEN Returns(f, d.round_num, r.new_results, TRUE,
                              c.final_severity)
                 ELSE Returns(f, d.max_rounds + 1, r.new_results, FALSE,
                              debate_weighted_vote(r.new_results, d.weights))

\* one pass of the loop body for round d.round_num, and the return that
\* follows it when the round reached consensus, asked nobody, or was the
\* last one
run_round(d, behaviour) ==
    LET r == RoundFrom(d.adapters, 1, d.current, behaviour)
        e == Asked(d, r)
    IN  IF r.raised THEN [e EXCEPT !.pc = "raised"]
        ELSE IF r.new_results = <<>>
        THEN Returns(e, d.max_rounds + 1, d.current, FALSE,
                     debate_weighted_vote(d.current, d.weights))
        ELSE LET c == check_consensus(r.new_results)
                 f == [e EXCEPT !.executed = @ + 1]
             IN  IF c.consensus
                 THEN Returns(f, d.round_num, r.new_results, TRUE,
                              c.final_severity)
                 ELSE IF d.round_num < d.max_rounds + 1
                 THEN [f EXCEPT !.round_num = @ + 1,
                                !.current = r.new_results]
                 ELSE Returns(f, d.max_rounds + 1, r.new_results, FALSE,
                              debate_weighted_vote(r.new_results, d.weights))

\* The adapters of the completion review (gemini before copilot, each
\* present or not) and the initial results handed over: the successful
\* outcomes of some of them, in completion order, for which a debate is
\* needed.
AdapterLists ==
    {<<"gemini">>, <<"copilot">>, ExternalAdapters}

\* conflict_resolution.weights as set for a debate: a weight for gemini,
\* or none at all
DebateWeights == {w \in WeightTables : DOMAIN w \subseteq {"gemini"}}

AllTriggers ==
    [enabled |-> TRUE, trigger_on_disagreement |-> TRUE,
     trigger_on_high |-> TRUE]

InitialResults(adapters) ==
    {rs \in ResultLists :
        /\ rs # <<>>
        /\ \A j \in 1..Len(rs) :
              rs[j].success /\ rs[j].adapter_name \in Range(adapters)
        /\ needs_debate(AllTriggers, rs).needed}

DebateFrames ==
    {[op |-> "run_debate", pc |-> "loop", max_rounds |-> m,
      adapters |-> as, weights |-> w, initial |-> rs, current |-> rs,
      round_num |-> 2, executed |-> 0,
      calls |-> [a \in Range(as) |-> 0],
      shown |-> [a \in Range(as) |-> <<>>],
      ret |-> NoRet] :
        m \in 0..MaxRounds, as \in AdapterLists, w \in DebateWeights,
        rs \in ResultLists}

InitDebate ==
    /\ InitFiles
    /\ maxRetries = DefaultMaxRetries
    /\ rc = NoResolve
    /\ IdleQuota
    /\ todoRet = NoTodoRet
    /\ InitLate
    /\ dbt \in {d \in DebateFrames : d.initial \in InitialResults(d.adapters)}

\* for round_num in range(2, max_rounds + 2): one round
DebateRound(behaviour) ==
    /\ dbt.op = "run_debate"
    /\ dbt.pc = "loop"
    /\ dbt.round_num <= dbt.max_rounds + 1
    /\ dbt' = run_round(dbt, behaviour)
    /\ UNCHANGED <<coreVars, quotaVars, todoRet, lateVars>>

\* the range of rounds is empty: the weighted vote over the initial results
DebateNoRound ==
    /\ dbt.op = "run_debate"
    /\ dbt.pc = "loop"
    /\ dbt.round_num > dbt.max_rounds + 1
    /\ dbt' = Returns(dbt, dbt.max_rounds + 1, dbt.current, FALSE,
                      debate_weighted_vote(dbt.current, dbt.weights))
    /\ UNCHANGED <<coreVars, quotaVars, todoRet, lateVars>>

NextDebate ==
    \/ \E behaviour \in [Range(dbt.adapters) -> Behaviours] :
          DebateRound(behaviour)
    \/ DebateNoRound

SpecDebate == InitDebate /\ [][NextDebate]_vars

\* the sum of the weights, and of weight x rank, over the successful
\* outcomes (weight 1.0 where none is configured)
SumOver(results, weights, J, ranked) ==
    LET term(j) == Weight(weights, results[j].adapter_name)
                      * (IF ranked THEN index(results[j].severity) ELSE 1)
        RECURSIVE Sum(_)
        Sum(K) == IF K = {} THEN 0
                  ELSE LET j == CHOOSE k \in K : TRUE
                       IN  term(j) + Sum(K \ {j})
    IN  Sum(J)

\* C15: when no debate round reaches consensus, the final severity is the
\* one of rank round(sum of weight x rank / sum of weight) over the
\* successful outcomes of the last round (weight 1.0 by default), returned
\* with consensus_reached = false; when the total weight is zero (no
\* successful outcome in the last round) the final severity is MEDIUM.
C15_WeightedFallback ==
    (/\ dbt.op = "run_debate"
     /\ dbt.pc = "returned"
     /\ ~dbt.ret.consensus_reached)
    => LET J == Successful(dbt.ret.results)
           total == SumOver(dbt.ret.results, dbt.weights, J, FALSE)
           score == SumOver(dbt.ret.results, dbt.weights, J, TRUE)
       IN  IF total = 0 THEN dbt.ret.final_severity = "MEDIUM"
           ELSE dbt.ret.final_severity = SeverityList[round(score, total) + 1]

\* the outcomes of a round reach consensus: some agent succeeded and the
\* ranks of the successful ones differ by at most one
ReachConsensus(results) ==
    /\ Successful(results) # {}
    /\ Spread(results, Successful(results)) <= 1

C16_Step ==
    /\ (/\ dbt.op = "run_debate"
        /\ dbt.pc = "loop"
        /\ dbt'.pc # "raised"
        /\ dbt'.executed = dbt.executed + 1
        /\ ReachConsensus(dbt'.current))
       => /\ dbt'.pc = "returned"
          /\ dbt'.ret.consensus_reached
          /\ dbt'.ret.round_num = dbt.round_num
          /\ dbt'.ret.round_num = dbt'.executed + 1
          /\ dbt'.ret.results = dbt'.current
          /\ dbt'.ret.final_severity =
                Highest(SeveritySet(dbt'.current, Successful(dbt'.current)))
    /\ (dbt.op = "run_debate" /\ dbt.pc = "returned") => dbt' = dbt
    /\ (/\ dbt.op = "run_debate"
        /\ dbt.pc = "loop"
        /\ dbt.executed = 0
        /\ dbt.max_rounds >= 1
        /\ dbt.adapters = ExternalAdapters
        /\ dbt.initial = <<ReviewResult("gemini", "HIGH", TRUE),
                           ReviewResult("copilot", "OK", TRUE)>>
        /\ dbt'.pc # "raised"
        /\ dbt'.current = <<ReviewResult("gemini", "MEDIUM", TRUE),
                            ReviewResult("copilot", "MEDIUM", TRUE)>>)
       => /\ dbt'.pc = "returned"
          /\ dbt'.ret.consensus_reached
          /\ dbt'.ret.final_severity = "MEDIUM"
          /\ dbt'.ret.round_num = 2
          /\ \A a \in Range(dbt.adapters) : dbt'.calls[a] = 1

\* C16: run_debate returns at the first round whose outcomes reach
\* consensus, with consensus_reached = true and round_num equal to that
\* round, and executes no later round; a debate started from A=HIGH, B=OK
\* in which both agents answer MEDIUM in round 2 returns
\* consensus_reached = true, final_severity = MEDIUM, round_num = 2, each
\* agent having been asked again exactly once.
C16_FirstConsensus == [][C16_Step]_vars

\* A=HIGH, B=OK; both answered MEDIUM in round 2 of up to MaxRounds
C16_Witness ==
    /\ dbt.op = "run_debate"
    /\ dbt.pc = "returned"
    /\ dbt.max_rounds = MaxRounds
    /\ dbt.initial = <<ReviewResult("gemini", "HIGH", TRUE),
                       ReviewResult("copilot", "OK", TRUE)>>
    /\ dbt.ret.results = <<ReviewResult("gemini", "MEDIUM", TRUE),
                           ReviewResult("copilot", "MEDIUM", TRUE)>>
    /\ dbt.ret.consensus_reached
    /\ dbt.ret.final_severity = "MEDIUM"
    /\ dbt.ret.round_num = 2
    /\ dbt.calls = [a \in Range(ExternalAdapters) |-> 1]

\* ------------------------------------------------------ hooks/quota_monitor
\* A text is a sequence of characters; datetime.now() is the clock, in
\* minutes, and an isoformat() string the clock value it was made from.
CooldownMinutes == 30
MinutesPerDay == 1440
MaxClock == 40
MaxRecords == 4

QuotaStatus == {"available", "low", "exhausted", "unknown"}

UpperLetters ==
    <<"A", "B", "C", "D", "E", "F", "G", "H", "I", "J", "K", "L", "M",
      "N", "O", "P", "Q", "R", "S", "T", "U", "V", "W", "X", "Y", "Z">>
LowerLetters ==
    <<"a", "b", "c", "d", "e", "f", "g", "h", "i", "j", "k", "l", "m",
      "n", "o", "p", "q", "r", "s", "t", "u", "v", "w", "x", "y", "z">>

\* str.lower()
lower(text) ==
    [i \in 1..Len(text) |->
        IF \E k \in 1..26 : UpperLetters[k] = text[i]
        THEN LowerLetters[CHOOSE k \in 1..26 : UpperLetters[k] = text[i]]
        ELSE text[i]]

\* kw in text
in(kw, text) ==
    \E i \in 0..(Len(text) - Len(kw)) : SubSeq(text, i + 1, i + Len(kw)) = kw

quota_keywords ==
    <<<<"q", "u", "o", "t", "a">>,
      <<"l", "i", "m", "i", "t">>,
      <<"e", "x", "c", "e", "e", "d", "e", "d">>,
      <<"r", "a", "t", "e">>,
      <<"4", "2", "9">>,
      <<"e", "x", "h", "a", "u", "s", "t", "e", "d">>>>

is_quota_error(error) ==
    \E k \in 1..Len(quota_keywords) : in(quota_keywords[k], lower(error))

AdapterQuota(adapter_name, status) ==
    [adapter_name |-> adapter_name, status |-> status,
     last_success |-> None, last_failure |-> None,
     failure_count |-> 0, success_count |-> 0,
     consecutive_failures |-> 0, cooldown_until |-> None]

\* _save_state: the whole of self.quotas under today's date
save_state(q, t) ==
    [exists |-> TRUE, date |-> t \div MinutesPerDay, updated_at |-> t,
     quotas |-> q]

\* faulty variant: a success leaves the cooldown standing
record_success_cooling(q, adapter_name, t) ==
    LET quota == Get(q, adapter_name, AdapterQuota(adapter_name, "available"))
    IN  Put(q, adapter_name,
            [quota EXCEPT !.success_count = @ + 1,
                          !.consecutive_failures = 0,
                          !.last_success = t,
                          !.status = "available"])

record_success(q, adapter_name, t) ==
    LET quota == Get(q, adapter_name, AdapterQuota(adapter_name, "available"))
    IN  Put(q, adapter_name,
            [quota EXCEPT !.success_count = @ + 1,
                          !.consecutive_failures = 0,
                          !.last_success = t,
                          !.status = "available",
                          !.cooldown_until = None])

\* faulty variant: three failures in a row exhaust the agent without a
\* cooldown
record_failure_forever(q, adapter_name, error, t) ==
    LET quota == Get(q, adapter_name, AdapterQuota(adapter_name, "unknown"))
        counted == [quota EXCEPT !.failure_count = @ + 1,
                                 !.consecutive_failures = @ + 1,
                                 !.last_failure = t]
    IN  Put(q, adapter_name,
            IF is_quota_error(error)
            THEN [counted EXCEPT !.status = "exhausted",
                                 !.cooldown_until = t + CooldownMinutes]
            ELSE IF counted.consecutive_failures >= 3
            THEN [counted EXCEPT !.status = "exhausted"]
            ELSE IF counted.consecutive_failures >= 2
            THEN [counted EXCEPT !.status = "low"]
            ELSE counted)

record_failure(q, adapter_name, error, t) ==
    LET quota == Get(q, adapter_name, AdapterQuota(adapter_name, "unknown"))
        counted == [quota EXCEPT !.failure_count = @ + 1,
                                 !.consecutive_failures = @ + 1,
                                 !.last_failure = t]
    IN  Put(q, adapter_name,
            IF is_quota_error(error) \/ counted.consecutive_failures >= 3
            THEN [counted EXCEPT !.status = "exhausted",
                                 !.cooldown_until = t + CooldownMinutes]
            ELSE IF counted.consecutive_failures >= 2
            THEN [counted EXCEPT !.status = "low"]
            ELSE counted)

\* faulty variant: an elapsed cooldown is cleared but the failures in a row
\* stay counted
is_available_counting(q, adapter_name, t) ==
    IF adapter_name \notin DOMAIN q
    THEN [ret |-> TRUE, quotas |-> q, saved |-> FALSE]
    ELSE LET quota == q[adapter_name]
         IN  IF quota.cooldown_until # None
             THEN IF t < quota.cooldown_until
                  THEN [ret |-> FALSE, quotas |-> q, saved |-> FALSE]
                  ELSE LET reset == [quota EXCEPT !.status = "unknown",
                                                  !.cooldown_until = None]
                       IN  [ret |-> reset.status # "exhausted",
                            quotas |-> Put(q, adapter_name, reset),
                            saved |-> TRUE]
             ELSE [ret |-> quota.status # "exhausted", quotas |-> q,
                   saved |-> FALSE]

\* is_available: what it returns, self.quotas afterwards and whether it
\* saved the state (a stored cooldown_until is always an isoformat() text,
\* so fromisoformat does not raise)
is_available(q, adapter_name, t) ==
    IF adapter_name \notin DOMAIN q
    THEN [ret |-> TRUE, quotas |-> q, saved |-> FALSE]
    ELSE LET quota == q[adapter_name]
         IN  IF quota.cooldown_until # None
             THEN IF t < quota.cooldown_until
                  THEN [ret |-> FALSE, quotas |-> q, saved |-> FALSE]
                  ELSE LET reset == [quota EXCEPT !.status = "unknown",
                                                  !.consecutive_failures = 0,
                                                  !.cooldown_until = None]
                       IN  [ret |-> reset.status # "exhausted",
                            quotas |-> Put(q, adapter_name, reset),
                            saved |-> TRUE]
             ELSE [ret |-> quota.status # "exhausted", quotas |-> q,
                   saved |-> FALSE]

\* ------------------------------------------- one QuotaMonitor, call by call
\* The monitor of one process; every call is made at the time of the clock,
\* which moves on in steps of a third of the cooldown.
QuotaAgents == {"gemini", "copilot"}

ClockStep == CooldownMinutes \div 3

ErrorTexts ==
    {<<"t", "i", "m", "e", "o", "u", "t">>,
     <<"R", "a", "t", "e", " ", "L", "i", "m", "i", "t">>}

RECURSIVE Recorded(_, _)
Recorded(q, names) ==
    IF names = {} THEN 0
    ELSE LET a == CHOOSE x \in names : TRUE
         IN  q[a].failure_count + q[a].success_count
                + Recorded(q, names \ {a})

QuotaCall(op, adapter_name, error, ret) ==
    [op |-> op, adapter_name |-> adapter_name, error |-> error, ret |-> ret]

Elapse ==
    /\ clock + ClockStep <= MaxClock
    /\ clock' = clock + ClockStep
    /\ qcall' = QuotaCall("elapse", "", <<>>, TRUE)
    /\ UNCHANGED <<coreVars, dbt, todoRet, lateVars, quotas, qfile>>

RecordSuccess(a) ==
    /\ Recorded(quotas, DOMAIN quotas) < MaxRecords
    /\ quotas' = record_success(quotas, a, clock)
    /\ qfile' = save_state(quotas', clock)
    /\ qcall' = QuotaCall("record_success", a, <<>>, TRUE)
    /\ UNCHANGED <<coreVars, dbt, todoRet, lateVars, clock>>

RecordFailure(a, error) ==
    /\ Recorded(quotas, DOMAIN quotas) < MaxRecords
    /\ quotas' = record_failure(quotas, a, error, clock)
    /\ qfile' = save_state(quotas', clock)
    /\ qcall' = QuotaCall("record_failure", a, error, TRUE)
    /\ UNCHANGED <<coreVars, dbt, todoRet, lateVars, clock>>

IsAvailable(a) ==
    /\ \E r \in {is_available(quotas, a, clock)} :
          /\ quotas' = r.quotas
          /\ qfile' = IF r.saved THEN save_state(r.quotas, clock) ELSE qfile
          /\ qcall' = QuotaCall("is_available", a, <<>>, r.ret)
    /\ UNCHANGED <<coreVars, dbt, todoRet, lateVars, clock>>

InitQuota ==
    /\ InitBase
    /\ maxRetries = DefaultMaxRetries
    /\ rc = NoResolve

NextQuota ==
    \/ Elapse
    \/ \E a \in QuotaAgents : RecordSuccess(a)
    \/ \E a \in QuotaAgents, error \in ErrorTexts : RecordFailure(a, error)
    \/ \E a \in QuotaAgents : IsAvailable(a)

SpecQuota == InitQuota /\ [][NextQuota]_vars

\* the record of an agent before a call (a fresh one if it had none)
QuotaOf(q, a) == Get(q, a, AdapterQuota(a, "unknown"))

HasKeyword(error) == is_quota_error(error)

C17_Step ==
    qcall'.op = "record_failure" =>
       LET a == qcall'.adapter_name
           before == QuotaOf(quotas, a)
           after == quotas'[a]
       IN  /\ after.consecutive_failures = before.consecutive_failures + 1
           /\ after.failure_count = before.failure_count + 1
           /\ IF HasKeyword(qcall'.error) \/ after.consecutive_failures >= 3
              THEN /\ after.status = "exhausted"
                   /\ after.cooldown_until = clock + CooldownMinutes
                   /\ \A t \in clock..(clock + CooldownMinutes - 1) :
                         ~is_available(quotas', a, t).ret
              ELSE IF after.consecutive_failures >= 2
              THEN after.status = "low" /\ after.cooldown_until = None
              ELSE after.status = before.status

\* C17: record_failure increases consecutive_failures and failure_count by
\* one; if the error text contains a quota keyword (in any case) or
\* consecutive_failures is now >= 3, status becomes EXHAUSTED with a
\* cooldown ending 30 minutes later (is_available false until then);
\* otherwise, if consecutive_failures >= 2, status becomes LOW and the
\* agent carries no cooldown; otherwise status is unchanged.
C17_RecordFailure == [][C17_Step]_vars

C18_Step ==
    /\ qcall'.op = "record_success" =>
          LET a == qcall'.adapter_name
              before == QuotaOf(quotas, a)
              after == quotas'[a]
          IN  /\ after.status = "available"
              /\ after.consecutive_failures = 0
              /\ after.cooldown_until = None
              /\ after.success_count = before.success_count + 1
              /\ after.failure_count = before.failure_count
    /\ (/\ qcall.op = "record_success"
        /\ qcall'.op = "is_available"
        /\ qcall'.adapter_name = qcall.adapter_name)
       => qcall'.ret

\* C18: record_success in any state (EXHAUSTED with an active cooldown
\* included) sets status AVAILABLE, consecutive_failures to 0 and clears
\* the cooldown, so that is_available is true right afterwards; it
\* increases success_count by one and leaves failure_count unchanged.
C18_RecordSuccess == [][C18_Step]_vars

\* three failures in a row, the last one just now, then a success and
\* is_available answering true
C18_Witness ==
    /\ qcall.op = "is_available"
    /\ qcall.adapter_name = "gemini"
    /\ qcall.ret
    /\ "gemini" \in DOMAIN quotas
    /\ quotas["gemini"].failure_count = 3
    /\ quotas["gemini"].success_count = 1
    /\ quotas["gemini"].last_failure = clock
    /\ quotas["gemini"].last_success = clock
    /\ quotas["gemini"].status = "available"

C19_Step ==
    qcall'.op = "is_available" =>
       LET a == qcall'.adapter_name
       IN  /\ ~qcall'.ret =>
                 /\ a \in DOMAIN quotas
                 /\ quotas[a].status = "exhausted"
                 /\ quotas[a].cooldown_until # None
                 /\ clock < quotas[a].cooldown_until
           /\ (a \notin DOMAIN quotas
                 \/ quotas[a].status \in {"unknown", "available", "low"})
              => qcall'.ret

\* C19: in every state reached by record_success, record_failure and
\* is_available calls, is_available(agent) returns false only if the
\* agent's status is EXHAUSTED and its cooldown has not elapsed; for an
\* agent with no record or with status UNKNOWN, AVAILABLE or LOW it
\* returns true.
C19_Unavailable == [][C19_Step]_vars

\* ------------------------------------------------ hooks/todo_state_detector
\* A todo is its status (its content is copied to the snapshot unread);
\* the "todo" state file holds the snapshot of the last detect_completion
\* and the completion review count.
MaxTodos == 2

TodoStatuses == {"pending", "in_progress", "completed"}

TodoLists == UNION {[1..n -> TodoStatuses] : n \in 0..MaxTodos}

TodoState(all_completed, just_completed, total, completed) ==
    [all_completed |-> all_completed, just_completed |-> just_completed,
     total |-> total, completed |-> completed]

\* get_todo_state / save_todo_state
get_todo_state(f, session_id) == read_state(f, session_id, "todo")

save_todo_state(f, session_id, state, t) ==
    write_state(f, session_id, "todo", Put(state, "updated_at", t))

get_completion_review_count(f, session_id) ==
    Get(read_state(f, session_id, "todo"), "review_count", 0)

increment_completion_review_count(f, session_id, t) ==
    LET state == read_state(f, session_id, "todo")
        count == Get(state, "review_count", 0) + 1
    IN  [files |-> write_state(f, session_id, "todo",
                      Put(Put(state, "review_count", count),
                          "last_review_at", t)),
         ret |-> count]

reset_completion_review_count(f, session_id) ==
    write_state(f, session_id, "todo",
                Put(read_state(f, session_id, "todo"), "review_count", 0))

\* faulty variant: the override file is left in place
cleanup_session_kept(f, session_id) ==
    [f EXCEPT ![session_id] =
        [t \in StateTypes |-> IF t = "override" THEN @[t] ELSE NoFile]]

cleanup_session(f, session_id) ==
    [f EXCEPT ![session_id] = [t \in StateTypes |-> NoFile]]

\* sum(1 for t in todos if t.get("status") == "completed")
Completed(todos) ==
    Cardinality({j \in 1..Len(todos) : todos[j] = "completed"})

\* faulty variant: an empty list is saved as a snapshot that is not
\* all-completed
detect_completion_saving(f, session_id, todos, t) ==
    LET total == Len(todos)
        completed == Completed(todos)
        all_completed == (todos # <<>> /\ completed = total)
        prev_state == get_todo_state(f, session_id)
        prev_all_completed == Get(prev_state, "all_completed", FALSE)
        just_completed == all_completed /\ ~prev_all_completed
    IN  [files |-> save_todo_state(f, session_id,
                      [k \in {"all_completed", "total", "completed",
                              "todos_snapshot"} |->
                          CASE k = "all_completed" -> all_completed
                            [] k = "total" -> total
                            [] k = "completed" -> completed
                            [] OTHER -> todos], t),
         ret |-> TodoState(all_completed, just_completed, total, completed)]

\* faulty variant: the previous snapshot is not looked at
detect_completion_every(f, session_id, todos, t) ==
    IF todos = <<>>
    THEN [files |-> f, ret |-> TodoState(FALSE, FALSE, 0, 0)]
    ELSE LET total == Len(todos)
             completed == Completed(todos)
             all_completed == (completed = total)
             just_completed == all_completed
         IN  [files |-> save_todo_state(f, session_id,
                           [k \in {"all_completed", "total", "completed",
                                   "todos_snapshot"} |->
                               CASE k = "all_completed" -> all_completed
                                 [] k = "total" -> total
                                 [] k = "completed" -> completed
                                 [] OTHER -> todos], t),
              ret |-> TodoState(all_completed, just_completed,
                                total, completed)]

detect_completion(f, session_id, todos, t) ==
    IF todos = <<>>
    THEN [files |-> f, ret |-> TodoState(FALSE, FALSE, 0, 0)]
    ELSE LET total == Len(todos)
             completed == Completed(todos)
             all_completed == (completed = total)
             prev_state == get_todo_state(f, session_id)
             prev_all_completed == Get(prev_state, "all_completed", FALSE)
             just_completed == all_completed /\ ~prev_all_completed
         IN  [files |-> save_todo_state(f, session_id,
                           [k \in {"all_completed", "total", "completed",
                                   "todos_snapshot"} |->
                               CASE k = "all_completed" -> all_completed
                                 [] k = "total" -> total
                                 [] k = "completed" -> completed
                                 [] OTHER -> todos], t),
              ret |-> TodoState(all_completed, just_completed,
                                total, completed)]

\* ------------------------------------------- the todo namespace, call by call
TodoCall(op, session_id, todos, state) ==
    [op |-> op, session_id |-> session_id, todos |-> todos, state |-> state]

DetectCompletion(s, todos) ==
    /\ \E r \in {detect_completion(files, s, todos, now)} :
          /\ files' = r.files
          /\ todoRet' = TodoCall("detect_completion", s, todos, r.ret)
    /\ UNCHANGED <<now, maxRetries, last, orchVars, grants, procVars,
                   dbt, quotaVars, lateVars>>

IncrementCompletionReviewCount(s) ==
    /\ get_completion_review_count(files, s) < MaxCount
    /\ files' = increment_completion_review_count(files, s, now).files
    /\ todoRet' = TodoCall("increment_completion_review_count", s, <<>>,
                           TodoState(FALSE, FALSE, 0, 0))
    /\ UNCHANGED <<now, maxRetries, last, orchVars, grants, procVars,
                   dbt, quotaVars, lateVars>>

ResetCompletionReviewCount(s) ==
    /\ files' = reset_completion_review_count(files, s)
    /\ todoRet' = TodoCall("reset_completion_review_count", s, <<>>,
                           TodoState(FALSE, FALSE, 0, 0))
    /\ UNCHANGED <<now, maxRetries, last, orchVars, grants, procVars,
                   dbt, quotaVars, lateVars>>

CleanupSession(s) ==
    /\ files' = cleanup_session(files, s)
    /\ todoRet' = TodoCall("cleanup_session", s, <<>>,
                           TodoState(FALSE, FALSE, 0, 0))
    /\ UNCHANGED <<now, maxRetries, last, orchVars, grants, procVars,
                   dbt, quotaVars, lateVars>>

InitTodo ==
    /\ InitBase
    /\ maxRetries = DefaultMaxRetries
    /\ rc = NoResolve

NextTodo ==
    \/ \E s \in HookSessions, todos \in TodoLists : DetectCompletion(s, todos)
    \/ \E s \in HookSessions : IncrementCompletionReviewCount(s)
    \/ \E s \in HookSessions : ResetCompletionReviewCount(s)
    \/ \E s \in HookSessions : CleanupSession(s)
    \/ Tick

SpecTodo == InitTodo /\ [][NextTodo]_vars

\* the stored snapshot of the session says all completed
StoredAllCompleted(f, s) ==
    /\ f[s]["todo"].exists
    /\ "all_completed" \in DOMAIN f[s]["todo"].data
    /\ f[s]["todo"].data["all_completed"]

AllDone(todos) ==
    todos # <<>> /\ \A j \in 1..Len(todos) : todos[j] = "completed"

\* a step that is a detect_completion call (the clock alone moving is none)
C20_Step ==
    (todoRet'.op = "detect_completion" /\ now' = now) =>
       LET s == todoRet'.session_id
           todos == todoRet'.todos
       IN  /\ todos # <<>> =>
                 (todoRet'.state.just_completed
                     <=> (AllDone(todos) /\ ~StoredAllCompleted(files, s)))
           /\ (/\ todoRet.op = "detect_completion"
               /\ todoRet.session_id = s
               /\ AllDone(todoRet.todos)
               /\ AllDone(todos))
              => ~todoRet'.state.just_completed
           /\ (/\ todoRet.op = "detect_completion"
               /\ todoRet.session_id = s
               /\ todoRet.todos # <<>>
               /\ ~AllDone(todoRet.todos)
               /\ AllDone(todos))
              => todoRet'.state.just_completed

\* C20: detect_completion reports just_completed = true exactly when every
\* item of the given non-empty todo list is completed and the previously
\* stored snapshot was not all-completed; of consecutive calls with an
\* all-completed list only the first reports just_completed, and a list
\* that becomes incomplete and then complete again reports it once more.
C20_JustCompleted == [][C20_Step]_vars

\* a list of two completed items was reported as just completed by a call
\* made at time 2
C20_Witness ==
    /\ todoRet.op = "detect_completion"
    /\ todoRet.todos = <<"completed", "completed">>
    /\ todoRet.state.just_completed
    /\ get_completion_review_count(files, todoRet.session_id) = 0
    /\ files[todoRet.session_id]["todo"].data["updated_at"] = 2

C21_Step ==
    LET s == todoRet'.session_id
    IN  (/\ todoRet'.op \in {"detect_completion",
                             "increment_completion_review_count"}
         /\ now' = now)
        => get_completion_review_count(files', s)
              >= get_completion_review_count(files, s)

\* C21: the completion review count of a session never decreases under an
\* operation on the todo namespace (the todo snapshot being read or saved,
\* detect_completion, increment_completion_review_count); it decreases
\* only through reset_completion_review_count or cleanup_session.
C21_CountMonotonic == [][C21_Step]_vars

C40_Step ==
    (todoRet'.op = "detect_completion" /\ now' = now) =>
       LET s == todoRet'.session_id
       IN  /\ todoRet'.todos = <<>> =>
                 /\ ~todoRet'.state.all_completed
                 /\ ~todoRet'.state.just_completed
                 /\ files' = files
           /\ (/\ todoRet.op = "detect_completion"
               /\ todoRet.session_id = s
               /\ todoRet.todos = <<>>
               /\ StoredAllCompleted(files, s)
               /\ AllDone(todoRet'.todos))
              => ~todoRet'.state.just_completed

\* C40: detect_completion called with an empty todo list returns
\* all_completed = false and just_completed = false and leaves the stored
\* todo snapshot unchanged, so an all-completed list that follows an empty
\* list that followed an all-completed list is not reported as just
\* completed again.
C40_EmptyList == [][C40_Step]_vars

\* the last call had an empty list and the snapshot stored before it, which
\* says all completed, is still there
C40_Witness ==
    /\ todoRet.op = "detect_completion"
    /\ todoRet.todos = <<>>
    /\ StoredAllCompleted(files, todoRet.session_id)
    /\ files[todoRet.session_id]["todo"].data["todos_snapshot"]
          = <<"completed", "completed">>

\* ------------------------------------------------- Severity.__lt__ checked
\* three severities are drawn and every comparison among them is evaluated
Compared(a, b, c) ==
    [op |-> "lt", a |-> a, b |-> b, c |-> c,
     ab |-> lt(a, b), ba |-> lt(b, a), aa |-> lt(a, a),
     bc |-> lt(b, c), ac |-> lt(a, c), oka |-> lt("OK", a)]

Compare ==
    /\ cmp.op = "drawn"
    /\ cmp' = Compared(cmp.a, cmp.b, cmp.c)
    /\ UNCHANGED <<coreVars, dbt, quotaVars, todoRet, recov, comp, qprocs,
                   gate, audit>>

InitSeverity ==
    /\ InitFiles
    /\ maxRetries = DefaultMaxRetries
    /\ rc = NoResolve
    /\ dbt = NoDebate
    /\ IdleQuota
    /\ todoRet = NoTodoRet
    /\ cmp \in [op : {"drawn"}, a : Severities, b : Severities,
                c : Severities]
    /\ recov = Idle
    /\ comp = Idle
    /\ qprocs = Idle
    /\ gate = Idle
    /\ audit = <<>>

NextSeverity == Compare

SpecSeverity == InitSeverity /\ [][NextSeverity]_vars

\* C23: the severity comparison is a strict total order with
\* OK < LOW < MEDIUM < HIGH < CRITICAL: of two different severities exactly
\* one is below the other, no severity is below itself, the relation is
\* transitive, and OK is below every other severity.
C23_StrictTotalOrder ==
    cmp.op = "lt" =>
        /\ cmp.a # cmp.b => (cmp.ab /\ ~cmp.ba) \/ (cmp.ba /\ ~cmp.ab)
        /\ ~cmp.aa
        /\ cmp.ab /\ cmp.bc => cmp.ac
        /\ cmp.a # "OK" => cmp.oka
        /\ <<cmp.a, cmp.b>> \in {<<"OK", "LOW">>, <<"LOW", "MEDIUM">>,
                <<"MEDIUM", "HIGH">>, <<"HIGH", "CRITICAL">>} => cmp.ab

\* three different severities have been compared, in ascending order
C23_Witness ==
    /\ cmp.op = "lt"
    /\ cmp.ab /\ cmp.bc /\ cmp.ac
    /\ cmp.a = "LOW"

\* the initial results in the order of the adapters
InitialResultsInOrder(adapters, initial) ==
    LET at(name) == SelectSeq(initial, LAMBDA r : r.adapter_name = name)
        RECURSIVE From(_)
        From(i) == IF i > Len(adapters) THEN <<>>
                   ELSE at(adapters[i]) \o From(i + 1)
    IN  From(1)

\* run_debate under the default weights, the initial results (OK or
\* CRITICAL each) having come in in the order of the adapters; its for loop goes on while each
\* adapter call returns
InitRounds ==
    /\ InitDebate
    /\ dbt.weights = EmptyMap
    /\ dbt.initial = InitialResultsInOrder(dbt.adapters, dbt.initial)
    /\ \A j \in 1..Len(dbt.initial) :
          dbt.initial[j].severity \in {"OK", "CRITICAL"}

SpecRounds == InitRounds /\ [][NextDebate]_vars /\ WF_vars(NextDebate)

\* the outcomes in results that come from agents other than a
OutcomesOfOthers(results, a) ==
    {results[j] : j \in {k \in 1..Len(results) : results[k].adapter_name # a}}

C25_Step ==
    (dbt.op = "run_debate" /\ dbt.pc = "loop")
    => /\ dbt'.executed \in {dbt.executed, dbt.executed + 1}
       /\ dbt'.executed = dbt.executed + 1
             => /\ dbt.round_num = dbt.executed + 2
                /\ dbt.round_num \in 2..(dbt.max_rounds + 1)
       /\ \A a \in Range(dbt.adapters) :
             /\ dbt'.calls[a] \in {dbt.calls[a], dbt.calls[a] + 1}
             /\ dbt'.calls[a] = dbt.calls[a] + 1
                   => /\ Range(dbt'.shown[a]) = OutcomesOfOthers(dbt.current, a)
                      /\ dbt'.shown[a] # <<>>
                      /\ \A j \in 1..Len(dbt'.shown[a]) :
                            dbt'.shown[a][j].adapter_name # a

C25_Bounded ==
    dbt.op = "run_debate"
    => /\ dbt.executed <= dbt.max_rounds
       /\ \A a \in Range(dbt.adapters) : dbt.calls[a] <= dbt.max_rounds
       /\ dbt.pc = "returned"
             => /\ dbt.ret.final_severity \in Severities
                /\ dbt.ret.round_num \in 1..(dbt.max_rounds + 1)

\* C25: run_debate executes at most max_rounds debate rounds, numbered
\* 2..max_rounds+1 and strictly in sequence; in round n each agent is
\* invoked at most once, with a prompt built only from the round n-1
\* outcomes of the other agents, never from its own outcome or from outcomes
\* of round n; provided every agent call returns, run_debate terminates and
\* returns a DebateRound whose final_severity is not null.
C25_Rounds ==
    /\ [][C25_Step]_vars
    /\ [](C25_Bounded)
    /\ <>(dbt.pc = "raised"
            \/ (dbt.pc = "returned" /\ dbt.ret.final_severity \in Severities))

\* both agents were asked in each of the MaxRounds rounds and no round
\* reached consensus
C25_Witness ==
    /\ dbt.op = "run_debate"
    /\ dbt.pc = "returned"
    /\ dbt.max_rounds = MaxRounds
    /\ dbt.executed = MaxRounds
    /\ \A a \in Range(ExternalAdapters) :
          a \in DOMAIN dbt.calls /\ dbt.calls[a] = MaxRounds
    /\ ~dbt.ret.consensus_reached

C27_Step ==
    /\ (/\ qcall'.op = "is_available"
        /\ qcall'.adapter_name \in DOMAIN quotas
        /\ quotas[qcall'.adapter_name].cooldown_until # None
        /\ clock >= quotas[qcall'.adapter_name].cooldown_until)
       => LET before == quotas[qcall'.adapter_name]
              after == quotas'[qcall'.adapter_name]
          IN  /\ qcall'.ret
              /\ after.status = "unknown"
              /\ after.consecutive_failures = 0
              /\ after.cooldown_until = None
              /\ after.success_count = before.success_count
              /\ after.failure_count = before.failure_count
    /\ (qcall'.op = "record_failure" /\ ~HasKeyword(qcall'.error))
       => LET a == qcall'.adapter_name
              before == QuotaOf(quotas, a)
              after == quotas'[a]
          IN  /\ (/\ before.status = "unknown"
                  /\ before.consecutive_failures = 0
                  /\ before.cooldown_until = None)
                 => /\ after.status # "exhausted"
                    /\ after.cooldown_until = None
                    /\ is_available(quotas', a, clock).ret
              /\ (after.status = "exhausted" /\ before.status # "exhausted")
                 => after.consecutive_failures >= 3

\* C27: once an agent's cooldown has elapsed, the next is_available call
\* returns true and resets its status to UNKNOWN, consecutive_failures to 0
\* and the cooldown to none, success_count and failure_count staying as they
\* were; one further failure without a quota keyword then does not exhaust
\* the agent again (three in a row are needed).
C27_CooldownElapsed == [][C27_Step]_vars

\* gemini was exhausted by a rate-limit failure, re-admitted by is_available
\* after the cooldown, and has failed once more on a timeout
C27_Witness ==
    /\ qcall.op = "record_failure"
    /\ qcall.adapter_name = "gemini"
    /\ ~HasKeyword(qcall.error)
    /\ "gemini" \in DOMAIN quotas
    /\ quotas["gemini"].failure_count = 2
    /\ quotas["gemini"].success_count = 0
    /\ quotas["gemini"].consecutive_failures = 1
    /\ quotas["gemini"].status = "unknown"
    /\ quotas["gemini"].cooldown_until = None
    /\ clock >= CooldownMinutes

\* ------------------------------- QuotaMonitor objects of separate processes
\* Each hook process builds its own QuotaMonitor, which loads the quota file
\* once, keeps self.quotas in memory and writes the whole of it at every
\* save. The file is shared; there is no lock around it.
MaxDays == 1
MaxUpdates == 2

Monitors == {"P", "Q"}

today(t) == t \div MinutesPerDay

\* AdapterQuota.to_dict
to_dict(quota) ==
    [adapter_name |-> quota.adapter_name, status |-> quota.status,
     last_success |-> quota.last_success,
     last_failure |-> quota.last_failure,
     failure_count |-> quota.failure_count,
     success_count |-> quota.success_count,
     consecutive_failures |-> quota.consecutive_failures,
     cooldown_until |-> quota.cooldown_until]

\* the file _save_state writes
dump_state(q, t) ==
    [exists |-> TRUE, date |-> today(t), updated_at |-> t,
     quotas |-> [name \in DOMAIN q |-> to_dict(q[name])]]

\* faulty variant: the date of the file is not looked at
load_state_any_date(file, t) ==
    IF ~file.exists THEN [quotas |-> EmptyMap, file |-> file]
    ELSE [quotas |->
             [name \in DOMAIN file.quotas |->
                 LET q == file.quotas[name]
                 IN  [adapter_name |-> name,
                      status |-> Get(q, "status", "unknown"),
                      last_success |-> Get(q, "last_success", None),
                      last_failure |-> Get(q, "last_failure", None),
                      failure_count |-> Get(q, "failure_count", 0),
                      success_count |-> Get(q, "success_count", 0),
                      consecutive_failures |->
                          Get(q, "consecutive_failures", 0),
                      cooldown_until |-> Get(q, "cooldown_until", None)]],
          file |-> file]

\* _load_state: self.quotas afterwards and the file afterwards
load_state(file, t) ==
    IF ~file.exists THEN [quotas |-> EmptyMap, file |-> file]
    ELSE IF file.date # today(t)
    THEN [quotas |-> EmptyMap, file |-> dump_state(EmptyMap, t)]
    ELSE [quotas |->
             [name \in DOMAIN file.quotas |->
                 LET q == file.quotas[name]
                 IN  [adapter_name |-> name,
                      status |-> Get(q, "status", "unknown"),
                      last_success |-> Get(q, "last_success", None),
                      last_failure |-> Get(q, "last_failure", None),
                      failure_count |-> Get(q, "failure_count", 0),
                      success_count |-> Get(q, "success_count", 0),
                      consecutive_failures |->
                          Get(q, "consecutive_failures", 0),
                      cooldown_until |-> Get(q, "cooldown_until", None)]],
          file |-> file]

NoMonitor == [pc |-> "none", quotas |-> EmptyMap]

\* a call of a process: what it was, and the date and the exhausted agents
\* of the file it found
MonitorCall(op, proc, adapter_name, found, ret) ==
    [op |-> op, proc |-> proc, adapter_name |-> adapter_name,
     found |-> IF found.exists
               THEN [exists |-> TRUE, date |-> found.date,
                     exhausted |-> {a \in DOMAIN found.quotas :
                                      found.quotas[a].status = "exhausted"}]
               ELSE [exists |-> FALSE],
     ret |-> ret]

\* QuotaMonitor(): a process starts
MonitorInit(p) ==
    /\ qprocs.mon[p].pc = "none"
    /\ \E r \in {load_state(qfile, clock)} :
          /\ qprocs' = [qprocs EXCEPT
                           !.mon[p] = [pc |-> "ready", quotas |-> r.quotas],
                           !.last = MonitorCall("init", p, "", qfile, TRUE)]
          /\ qfile' = r.file
    /\ UNCHANGED <<coreVars, dbt, todoRet, quotas, clock, qcall, cmp, recov,
                   comp, gate, audit>>

MonitorRecordSuccess(p, a) ==
    /\ qprocs.mon[p].pc = "ready"
    /\ qprocs.n < MaxUpdates
    /\ \E q \in {record_success(qprocs.mon[p].quotas, a, clock)} :
          /\ qprocs' = [qprocs EXCEPT
                           !.mon[p].quotas = q,
                           !.n = @ + 1,
                           !.last = MonitorCall("record_success", p, a,
                                                qfile, TRUE)]
          /\ qfile' = dump_state(q, clock)
    /\ UNCHANGED <<coreVars, dbt, todoRet, quotas, clock, qcall, cmp, recov,
                   comp, gate, audit>>

MonitorRecordFailure(p, a, error) ==
    /\ qprocs.mon[p].pc = "ready"
    /\ qprocs.n < MaxUpdates
    /\ \E q \in {record_failure(qprocs.mon[p].quotas, a, error, clock)} :
          /\ qprocs' = [qprocs EXCEPT
                           !.mon[p].quotas = q,
                           !.n = @ + 1,
                           !.last = MonitorCall("record_failure", p, a,
                                                qfile, TRUE)]
          /\ qfile' = dump_state(q, clock)
    /\ UNCHANGED <<coreVars, dbt, todoRet, quotas, clock, qcall, cmp, recov,
                   comp, gate, audit>>

MonitorIsAvailable(p, a) ==
    /\ qprocs.mon[p].pc = "ready"
    /\ \E r \in {is_available(qprocs.mon[p].quotas, a, clock)} :
          /\ qprocs' = [qprocs EXCEPT
                           !.mon[p].quotas = r.quotas,
                           !.last = MonitorCall("is_available", p, a,
                                                qfile, r.ret)]
          /\ qfile' = IF r.saved THEN dump_state(r.quotas, clock) ELSE qfile
    /\ UNCHANGED <<coreVars, dbt, todoRet, quotas, clock, qcall, cmp, recov,
                   comp, gate, audit>>

\* the hook process ends
MonitorExit(p) ==
    /\ qprocs.mon[p].pc = "ready"
    /\ qprocs' = [qprocs EXCEPT
                     !.mon[p] = NoMonitor,
                     !.last = MonitorCall("exit", p, "", qfile, TRUE)]
    /\ UNCHANGED <<coreVars, dbt, todoRet, quotas, qfile, clock, qcall, cmp,
                   recov, comp, gate, audit>>

\* midnight: the date changes, and every cooldown set before has elapsed
Midnight ==
    /\ today(clock) < MaxDays
    /\ clock' = (today(clock) + 1) * MinutesPerDay
    /\ qprocs' = [qprocs EXCEPT
                     !.last = MonitorCall("midnight", "", "", qfile, TRUE)]
    /\ UNCHANGED <<coreVars, dbt, todoRet, quotas, qfile, qcall, cmp, recov,
                   comp, gate, audit>>

InitMonitors ==
    /\ InitFiles
    /\ maxRetries = DefaultMaxRetries
    /\ rc = NoResolve
    /\ dbt = NoDebate
    /\ IdleQuota
    /\ todoRet = NoTodoRet
    /\ cmp = Idle
    /\ recov = Idle
    /\ comp = Idle
    /\ gate = Idle
    /\ audit = <<>>
    /\ qprocs = [mon |-> [p \in Monitors |-> NoMonitor], n |-> 0,
                 last |-> MonitorCall("none", "", "", NoQuotaFile, TRUE)]

NextMonitors ==
    \/ \E p \in Monitors : MonitorInit(p)
    \/ \E p \in Monitors, a \in QuotaAgents : MonitorRecordSuccess(p, a)
    \/ \E p \in Monitors, a \in QuotaAgents, error \in ErrorTexts :
          MonitorRecordFailure(p, a, error)
    \/ \E p \in Monitors, a \in QuotaAgents : MonitorIsAvailable(p, a)
    \/ \E p \in Monitors : MonitorExit(p)
    \/ Midnight

SpecMonitors == InitMonitors /\ [][NextMonitors]_vars

C28_Step ==
    (qprocs'.last.op = "init" /\ qprocs'.last # qprocs.last /\ qfile.exists)
    => LET p == qprocs'.last.proc
           loaded == qprocs'.mon[p].quotas
       IN  IF qfile.date # today(clock)
           THEN /\ loaded = EmptyMap
                /\ \A a \in QuotaAgents :
                      /\ is_available(loaded, a, clock).ret
                      /\ QuotaOf(loaded, a).failure_count = 0
                      /\ QuotaOf(loaded, a).success_count = 0
                      /\ QuotaOf(loaded, a).consecutive_failures = 0
                      /\ QuotaOf(loaded, a).cooldown_until = None
                /\ qfile'.exists
                /\ qfile'.date = today(clock)
                /\ qfile'.quotas = EmptyMap
           ELSE /\ DOMAIN loaded = DOMAIN qfile.quotas
                /\ \A a \in DOMAIN loaded : to_dict(loaded[a]) = qfile.quotas[a]
                /\ qfile' = qfile

\* C28: when the persisted agent-health record carries a date other than
\* the current date, loading it discards the records of all agents (every
\* agent is then available, with zero counters and no cooldown) and
\* persists the empty state under the current date; a record carrying the
\* current date is loaded with all fields unchanged.
C28_DailyReset == [][C28_Step]_vars

\* a process has started on the day after the one the file was written on,
\* the file then holding the record of an exhausted agent
C28_Witness ==
    /\ qprocs.last.op = "init"
    /\ qprocs.last.found.exists
    /\ qprocs.last.found.date # today(clock)
    /\ qprocs.last.found.exhausted # {}
    /\ qfile.quotas = EmptyMap
    /\ qfile.date = today(clock)

C30_Step ==
    (/\ qprocs'.last.op \in {"record_success", "record_failure"}
     /\ qprocs'.n = qprocs.n + 1
     /\ qfile.exists)
    => \A x \in DOMAIN qfile.quotas :
          x # qprocs'.last.adapter_name
          => /\ x \in DOMAIN qfile'.quotas
             /\ qfile'.quotas[x] = qfile.quotas[x]

\* C30: updates to the agent-health record made by concurrently running
\* processes are never lost: when a process records a success or a failure
\* for agent Y, the persisted record of every other agent X stays as the
\* last process to update it left it, so that after P records a failure for
\* X and Q a success for Y the file holds both updates.
C30_NoLostUpdate == [][C30_Step]_vars

\* ------------------------- ReviewOrchestrator.orchestrate, process by process
\* Hook processes of one session and stage, each running orchestrate under
\* the default configuration with the one reviewer gemini. Every call of the
\* state store is one step (the store locks each of its reads and writes);
\* the steps of different processes interleave.
GateSession == "s1"
GateStage == "code"
GateAdapters == <<"gemini">>

\* orchestrate from "Load prompt and run review" on, f being the files after
\* update_last_call_time
orchestrate_review(f, session_id, stage, cfg, rv, max_retries) ==
    LET results == rv.results
        final_severity == resolve_conflict(results, cfg.policy, cfg.weights)
        system_message == build_system_message(results, final_severity)
        retry_count == get_retry_count(f, session_id, stage)
        blocks == should_block(final_severity, retry_count, max_retries)
        warns == /\ final_severity \in {"CRITICAL", "HIGH"}
                 /\ ~blocks
    IN  [files |-> IF blocks
                   THEN increment_retry_count(f, session_id, stage).files
                   ELSE f,
         gate |-> "review",
         decision |-> IF blocks THEN "block" ELSE "continue",
         message |-> system_message
                     \o (IF blocks THEN <<"retry">> ELSE <<>>)
                     \o (IF warns THEN <<"max_retry_reached">> ELSE <<>>),
         results |-> results,
         final_severity |-> final_severity,
         dispatched |-> Range(rv.adapters)]

\* a process: where it is in orchestrate, when it made the debounce check,
\* which gate ended the call, the decision returned and the agents asked
NoInvocation ==
    [pc |-> "idle", checked_at |-> None, gate |-> "none",
     decision |-> "none", dispatched |-> {}]

\* the hook process starts: context = self.extract_context(hook_input)
GateStart(p) ==
    /\ gate[p].pc \in {"idle", "done"}
    /\ gate' = [gate EXCEPT ![p] = [NoInvocation EXCEPT !.pc = "override"]]
    /\ UNCHANGED <<coreVars, dbt, quotaVars, todoRet, cmp, recov, comp,
                   qprocs, audit>>

\* if self.check_override(session_id)
GateCheckOverride(p) ==
    /\ gate[p].pc = "override"
    /\ \E o \in {check_override(files, GateSession, DefaultConfig)} :
          /\ files' = o.files
          /\ gate' = [gate EXCEPT ![p] =
                         IF o.ret
                         THEN [@ EXCEPT !.pc = "done", !.gate = "override",
                                        !.decision = "continue"]
                         ELSE [@ EXCEPT !.pc = "debounce"]]
    /\ UNCHANGED <<now, maxRetries, last, out, blockCalls, grants, procVars,
                   rc, dbt, quotaVars, todoRet, cmp, recov, comp, qprocs,
                   audit>>

\* if self.check_debounce(session_id, stage)
GateCheckDebounce(p) ==
    /\ gate[p].pc = "debounce"
    /\ gate' = [gate EXCEPT ![p] =
                   IF check_debounce(files, GateSession, GateStage,
                                     DefaultConfig, now)
                   THEN [@ EXCEPT !.pc = "done", !.gate = "debounce",
                                  !.decision = "continue",
                                  !.checked_at = now]
                   ELSE [@ EXCEPT !.pc = "update", !.checked_at = now]]
    /\ UNCHANGED <<coreVars, dbt, quotaVars, todoRet, cmp, recov, comp,
                   qprocs, audit>>

\* self.state_manager.update_last_call_time(session_id, stage)
GateUpdateLastCallTime(p) ==
    /\ gate[p].pc = "update"
    /\ files' = update_last_call_time(files, GateSession, GateStage, now)
    /\ gate' = [gate EXCEPT ![p].pc = "review"]
    /\ UNCHANGED <<now, maxRetries, last, out, blockCalls, grants, procVars,
                   rc, dbt, quotaVars, todoRet, cmp, recov, comp, qprocs,
                   audit>>

\* the reviews, the conflict resolution and the retry logic
GateReview(p, behaviour) ==
    /\ gate[p].pc = "review"
    /\ \E r \in {orchestrate_review(
                    files, GateSession, GateStage, DefaultConfig,
                    [adapters |-> GateAdapters,
                     results |-> run_parallel_reviews(
                         GateAdapters, DefaultConfig.parallel_execution,
                         behaviour, <<1>>)],
                    maxRetries)} :
          /\ files' = r.files
          /\ gate' = [gate EXCEPT ![p] =
                         [@ EXCEPT !.pc = "done", !.gate = r.gate,
                                   !.decision = r.decision,
                                   !.dispatched = r.dispatched]]
    /\ UNCHANGED <<now, maxRetries, last, out, blockCalls, grants, procVars,
                   rc, dbt, quotaVars, todoRet, cmp, recov, comp, qprocs,
                   audit>>

\* time passes
GateTick ==
    /\ now < MaxTime
    /\ now' = now + 1
    /\ UNCHANGED <<files, maxRetries, last, out, blockCalls, grants, procVars,
                   rc, compVars>>

InitGate ==
    /\ InitFiles
    /\ maxRetries = DefaultMaxRetries
    /\ rc = NoResolve
    /\ dbt = NoDebate
    /\ IdleQuota
    /\ todoRet = NoTodoRet
    /\ cmp = Idle
    /\ recov = Idle
    /\ comp = Idle
    /\ qprocs = Idle
    /\ gate = [p \in Procs |-> NoInvocation]
    /\ audit = <<>>

NextGate ==
    \/ \E p \in Procs : GateStart(p)
    \/ \E p \in Procs : GateCheckOverride(p)
    \/ \E p \in Procs : GateCheckDebounce(p)
    \/ \E p \in Procs : GateUpdateLastCallTime(p)
    \/ \E p \in Procs, behaviour \in [Range(GateAdapters) -> Behaviours] :
          GateReview(p, behaviour)
    \/ GateTick

SpecGate == InitGate /\ [][NextGate]_vars

\* the invocation of p has passed the debounce gate and asked the agents
Dispatched(p) ==
    /\ gate[p].pc = "done"
    /\ gate[p].gate = "review"
    /\ gate[p].dispatched # {}

\* C29: of two orchestrate invocations for the same session and stage that
\* run in separate processes and reach the debounce gate within the
\* debounce window of each other, at most one goes on to dispatch reviews
\* to agents; the other is suppressed by the gate.
C29_OneDispatch ==
    \A p, q \in Procs :
        (p # q /\ Dispatched(p) /\ Dispatched(q))
        => ~(/\ gate[p].checked_at - gate[q].checked_at < DefaultDebounceSeconds
             /\ gate[q].checked_at - gate[p].checked_at < DefaultDebounceSeconds)

\* ------------------------------------- context_resilience: AutoRecoveryEngine
\* The protected context of a session as the recovery engine reads it: the
\* text and list fields are empty or not ("" and [] are false in Python);
\* NoContext stands for load() returning None.
NoContext == [exists |-> FALSE]

ProtectedContext(user_intent, key_decisions, pending_tasks, active_files, working_directory, active_skills, resolved_errors) ==
    [exists |-> TRUE, user_intent |-> user_intent,
     key_decisions |-> key_decisions, pending_tasks |-> pending_tasks,
     active_files |-> active_files, working_directory |-> working_directory,
     active_skills |-> active_skills, resolved_errors |-> resolved_errors]

Texts == {"", "text"}
Lists == {<<>>, <<"item">>}

ProtectedContexts ==
    {NoContext}
    \cup {ProtectedContext(u, k, t, f, w, a, e) :
             u \in Texts, k \in Lists, t \in Lists, f \in Lists, w \in Texts,
             a \in Lists, e \in Lists}

\* ContextResilienceConfig: enabled, auto_recover; too_long says whether
\* the message built exceeds recovery_message_max_length
RecoveryConfigs ==
    [enabled : BOOLEAN, auto_recover : BOOLEAN, too_long : BOOLEAN]

has_meaningful_content(context) ==
    \/ context.user_intent # ""
    \/ context.key_decisions # <<>>
    \/ context.pending_tasks # <<>>
    \/ context.active_files # <<>>

should_recover(config, context) ==
    IF ~config.enabled \/ ~config.auto_recover THEN FALSE
    ELSE IF ~context.exists THEN FALSE
    ELSE has_meaningful_content(context)

\* the message as the list of its sections
build_recovery_message(context) ==
    <<"context_recovered">>
    \o (IF context.user_intent # "" THEN <<"task_purpose">> ELSE <<>>)
    \o (IF context.working_directory # "" THEN <<"working_directory">>
        ELSE <<>>)
    \o (IF context.active_skills # <<>> THEN <<"active_skills">> ELSE <<>>)
    \o (IF context.key_decisions # <<>> THEN <<"key_decisions">> ELSE <<>>)
    \o (IF context.resolved_errors # <<>> THEN <<"resolved_errors">>
        ELSE <<>>)
    \o (IF context.pending_tasks # <<>> THEN <<"next_tasks">> ELSE <<>>)
    \o (IF context.active_files # <<>> THEN <<"active_files">> ELSE <<>>)
    \o <<"re_read_notice">>

\* recover: the dict returned, anchors_summary being the text of the
\* anchor manager ("" when the session has no anchors)
recover(config, context, anchors_summary) ==
    IF ~should_recover(config, context) THEN [continue |-> TRUE]
    ELSE IF ~context.exists THEN [continue |-> TRUE]
    ELSE LET built == build_recovery_message(context)
             message == IF anchors_summary # ""
                        THEN built \o <<"key_history">> ELSE built
             limited == IF config.too_long
                        THEN <<Head(message), "partially_omitted">>
                        ELSE message
         IN  [hookSpecificOutput |->
                 [hookEventName |-> "SessionStart",
                  additionalContext |-> limited]]

\* are.recover(session_id) on the context and the anchors drawn
Recover ==
    /\ recov.op = "drawn"
    /\ recov' = [op |-> "recover", config |-> recov.config,
                 context |-> recov.context, anchors |-> recov.anchors,
                 should |-> should_recover(recov.config, recov.context),
                 ret |-> recover(recov.config, recov.context, recov.anchors)]
    /\ UNCHANGED <<coreVars, dbt, quotaVars, todoRet, cmp, comp, qprocs,
                   gate, audit>>

InitRecovery ==
    /\ InitFiles
    /\ maxRetries = DefaultMaxRetries
    /\ rc = NoResolve
    /\ dbt = NoDebate
    /\ IdleQuota
    /\ todoRet = NoTodoRet
    /\ cmp = Idle
    /\ comp = Idle
    /\ qprocs = Idle
    /\ gate = Idle
    /\ audit = <<>>
    /\ recov \in [op : {"drawn"}, config : RecoveryConfigs,
                  context : ProtectedContexts, anchors : Texts]

NextRecovery == Recover

SpecRecovery == InitRecovery /\ [][NextRecovery]_vars

\* C24: for a session whose protected context has meaningful content (user
\* intent, key decisions, pending tasks or active files), recovery being
\* enabled, AutoRecoveryEngine.recover returns a result with continue = True
\* and a non-empty systemMessage; for a session whose context has no
\* meaningful content, should_recover is false and recover returns only
\* continue = True.
C24_Recover ==
    (recov.op = "recover" /\ recov.context.exists)
    => IF has_meaningful_content(recov.context)
       THEN (recov.config.enabled /\ recov.config.auto_recover)
            => /\ "continue" \in DOMAIN recov.ret
               /\ recov.ret["continue"] = TRUE
               /\ "systemMessage" \in DOMAIN recov.ret
               /\ recov.ret["systemMessage"] # <<>>
       ELSE /\ ~recov.should
            /\ recov.ret = [continue |-> TRUE]

\* ------------------------------------------- hooks/completion_orchestrator
\* One hook process per call: CompletionOrchestrator() loads the quota file
\* and picks its external adapters, orchestrate runs, the process ends.
DefaultMaxReviews == 3
MaxReviews == 2
MaxCalls == 3
CompletionRounds == 1

SelfResult == ReviewResult("claude_self", "OK", TRUE)

\* quota_monitor.get_available_adapters: is_available name by name
RECURSIVE get_available_adapters(_, _, _, _)
get_available_adapters(q, names, i, t) ==
    IF i > Len(names) THEN [available |-> <<>>, quotas |-> q, saved |-> FALSE]
    ELSE LET r == is_available(q, names[i], t)
             rest == get_available_adapters(r.quotas, names, i + 1, t)
         IN  [available |-> (IF r.ret THEN <<names[i]>> ELSE <<>>)
                               \o rest.available,
              quotas |-> rest.quotas,
              saved |-> r.saved \/ rest.saved]

\* _init_external_adapters: gemini, then copilot, each if its quota is
\* available and the adapter itself is (installed: API key or CLI found)
init_external_adapters(cfg, q, installed, t) ==
    IF ~cfg.include_external_review
    THEN [adapters |-> <<>>, quotas |-> q, saved |-> FALSE]
    ELSE LET a == get_available_adapters(q, ExternalAdapters, 1, t)
         IN  [adapters |-> SelectSeq(a.available,
                                     LAMBDA name : name \in installed),
              quotas |-> a.quotas, saved |-> a.saved]

\* the as_completed loop from the i-th completed future on (completed: the
\* adapter names in the order their futures complete): the results
\* appended and the quota monitor afterwards
RECURSIVE CollectFrom(_, _, _, _, _, _)
CollectFrom(completed, i, behaviour, error, q, t) ==
    IF i > Len(completed) THEN [results |-> <<>>, quotas |-> q]
    ELSE LET name == completed[i]
             result == Collected(name, behaviour[name])
             q1 == IF result.success THEN record_success(q, name, t)
                   ELSE record_failure(q, name, error, t)
             rest == CollectFrom(completed, i + 1, behaviour, error, q1, t)
         IN  [results |-> <<result>> \o rest.results, quotas |-> rest.quotas]

\* _run_parallel_reviews; order lists all adapter names by completion time
completion_reviews(cfg, q, installed, behaviour, order, error, t) ==
    LET self_results == IF cfg.include_self_review THEN <<SelfResult>>
                        ELSE <<>>
        init == init_external_adapters(cfg, q, installed, t)
        completed == SelectSeq(order,
                               LAMBDA name : name \in Range(init.adapters))
        got == CollectFrom(completed, 1, behaviour, error, init.quotas, t)
    IN  [adapters |-> init.adapters,
         results |-> self_results \o got.results,
         quotas |-> got.quotas,
         saved |-> init.saved \/ init.adapters # <<>>]

DebateFrame(max_rounds, adapters, weights, initial) ==
    [op |-> "run_debate", pc |-> "loop", max_rounds |-> max_rounds,
     adapters |-> adapters, weights |-> weights, initial |-> initial,
     current |-> initial, round_num |-> 2, executed |-> 0,
     calls |-> [a \in Range(adapters) |-> 0],
     shown |-> [a \in Range(adapters) |-> <<>>],
     ret |-> NoRet]

\* run_debate from frame d on, answers[k] being what the adapters do in
\* round k + 1
RECURSIVE run_debate(_, _)
run_debate(d, answers) ==
    IF d.pc # "loop" THEN d
    ELSE IF d.round_num > d.max_rounds + 1
    THEN Returns(d, d.max_rounds + 1, d.current, FALSE,
                 debate_weighted_vote(d.current, d.weights))
    ELSE run_debate(run_round(d, answers[d.round_num - 1]), answers)

\* faulty variant: HIGH blocks as well
build_output_high(results, debate) ==
    LET external_results ==
            SelectSeq(results, LAMBDA r : ~is_self_review(r) /\ r.success)
        debated == /\ debate.op = "run_debate"
                   /\ debate.ret.final_severity # NoSeverity
        final_severity ==
            IF debated THEN debate.ret.final_severity
            ELSE IF external_results # <<>>
            THEN max(SeveritiesOf(external_results))
            ELSE "OK"
        blocked == final_severity \in {"CRITICAL", "HIGH"}
    IN  [continue |-> ~blocked,
         systemMessage |-> <<>>,
         final_severity |-> final_severity]

\* _build_output: the dict returned (the message as the list of its parts)
\* and the final severity it decided on
build_output(results, debate) ==
    LET external_results ==
            SelectSeq(results, LAMBDA r : ~is_self_review(r) /\ r.success)
        debated == /\ debate.op = "run_debate"
                   /\ debate.ret.final_severity # NoSeverity
        final_severity ==
            IF debated THEN debate.ret.final_severity
            ELSE IF external_results # <<>>
            THEN max(SeveritiesOf(external_results))
            ELSE "OK"
        blocked == final_severity = "CRITICAL"
    IN  [continue |-> ~blocked,
         systemMessage |->
             (IF \E j \in 1..Len(results) : is_self_review(results[j])
              THEN <<"self_review">> ELSE <<>>)
             \o (IF debated THEN <<"debate_result">>
                 ELSE IF external_results # <<>> /\ final_severity # "OK"
                 THEN <<"external_review_result">>
                 ELSE <<>>)
             \o (IF blocked THEN <<"critical_blocked">> ELSE <<>>),
         final_severity |-> final_severity]

NoOutput == [continue |-> TRUE, systemMessage |-> <<>>,
             final_severity |-> NoSeverity]

\* CompletionOrchestrator(): the quota monitor loads the file and the
\* external adapters are picked; tq is the quota monitor's clock
completion_init(qf, cfg, installed, tq) ==
    LET loaded == load_state(qf, tq)
        init == init_external_adapters(cfg, loaded.quotas, installed, tq)
    IN  [adapters |-> init.adapters, quotas |-> init.quotas,
         qfile |-> IF init.saved THEN dump_state(init.quotas, tq)
                   ELSE loaded.file]

\* orchestrate, steps 1 and 2: "skipped" (not just completed),
\* "max_reviews", or "review" with the count incremented; t is the time
\* the state store writes
completion_gate(f, cfg, session_id, todos, t) ==
    LET d == detect_completion(f, session_id, todos, t)
        review_count == get_completion_review_count(d.files, session_id)
    IN  IF ~d.ret.just_completed
        THEN [step |-> "skipped", files |-> d.files, todo_state |-> d.ret,
              review_count |-> review_count,
              ret |-> NoOutput]
        ELSE IF review_count >= cfg.max_reviews
        THEN [step |-> "max_reviews", files |-> d.files,
              todo_state |-> d.ret, review_count |-> review_count,
              ret |-> [NoOutput EXCEPT !.systemMessage =
                                           <<"max_review_count_reached">>]]
        ELSE [step |-> "review",
              files |-> increment_completion_review_count(
                            d.files, session_id, t).files,
              todo_state |-> d.ret, review_count |-> review_count,
              ret |-> NoOutput]

\* orchestrate, step 4.5: is run_debate called
debate_called(cfg, results) ==
    LET external_results ==
            SelectSeq(results, LAMBDA r : ~is_self_review(r) /\ r.success)
    IN  /\ external_results # <<>>
        /\ needs_debate(cfg.debate, external_results).needed

\* NoDebate, or the frame run_debate ended in
completion_debate(cfg, adapters, results, answers) ==
    IF debate_called(cfg, results)
    THEN run_debate(DebateFrame(cfg.max_rounds, adapters, cfg.weights,
                        SelectSeq(results,
                            LAMBDA r : ~is_self_review(r) /\ r.success)),
                    answers)
    ELSE NoDebate

\* the results handed to _build_output
completion_results(results, debate) ==
    IF debate.op = "run_debate"
    THEN SelectSeq(results, is_self_review) \o debate.ret.results
    ELSE results

\* ---------------------------------- the completion hook, process by process
\* comp.cfg is the configuration file, the same for every call; calls
\* counts the hook processes run and dispatches those that ran the review.
NotAsked == [raises |-> FALSE, result |-> ReviewResult("x", "OK", FALSE)]

CompletionConfig(include_self_review, include_external_review, max_reviews, debate, max_rounds) ==
    [include_self_review |-> include_self_review,
     include_external_review |-> include_external_review,
     max_reviews |-> max_reviews, debate |-> debate,
     max_rounds |-> max_rounds, weights |-> EmptyMap]

DebateDisabled ==
    [enabled |-> FALSE, trigger_on_disagreement |-> TRUE,
     trigger_on_high |-> TRUE]

\* the adapter names in an order of completion
CompletionOrders ==
    {[j \in 1..Len(ExternalAdapters) |-> ExternalAdapters[p[j]]] :
        p \in Orders(Len(ExternalAdapters))}

\* what the adapters asked do (the others are not asked)
BehavioursOf(adapters, B) ==
    {b \in [Range(ExternalAdapters) -> B \cup {NotAsked}] :
        \A a \in Range(ExternalAdapters) :
            IF a \in Range(adapters) THEN b[a] \in B ELSE b[a] = NotAsked}

\* what the adapters do in the debate rounds
AnswersOf(adapters, B, rounds) ==
    [1..rounds -> BehavioursOf(adapters, B)]

NoAnswers == <<>>

\* what the call left in comp: step is "skipped", "max_reviews",
\* "reviewed" or "raised" (an adapter raised in the debate and the
\* exception left orchestrate)
Finished(step, s, todos, g, adapters, reviews, results, debate, ret) ==
    comp' = [comp EXCEPT
        !.calls = @ + 1,
        !.dispatches = IF step \in {"reviewed", "raised"} THEN @ + 1 ELSE @,
        !.last = [step |-> step, session_id |-> s, todos |-> todos,
                  todo_state |-> g.todo_state,
                  review_count |-> g.review_count,
                  adapters |-> adapters, reviews |-> reviews,
                  results |-> results, debate |-> debate, ret |-> ret]]

\* CompletionOrchestrator() followed by orchestrate(hook_input)
CompletionOrchestrate(s, todos, installed, behaviour, order, error, answers) ==
    /\ comp.op = "hook"
    /\ \E i \in {completion_init(qfile, comp.cfg, installed, clock)},
          g \in {completion_gate(files, comp.cfg, s, todos, now)} :
          /\ files' = g.files
          /\ IF g.step # "review"
             THEN /\ qfile' = i.qfile
                  /\ quotas' = i.quotas
                  /\ Finished(g.step, s, todos, g, i.adapters, <<>>, <<>>,
                              NoDebate, g.ret)
             ELSE \E rv \in {completion_reviews(comp.cfg, i.quotas,
                                 installed, behaviour, order, error, clock)} :
                  \E debate \in {completion_debate(comp.cfg, rv.adapters,
                                                   rv.results, answers)} :
                     /\ qfile' = IF rv.saved
                                 THEN dump_state(rv.quotas, clock)
                                 ELSE i.qfile
                     /\ quotas' = rv.quotas
                     /\ IF debate.op = "run_debate" /\ debate.pc = "raised"
                        THEN Finished("raised", s, todos, g, rv.adapters,
                                      rv.results, rv.results, debate,
                                      NoOutput)
                        ELSE \E results \in
                                 {completion_results(rv.results, debate)} :
                             Finished("reviewed", s, todos, g, rv.adapters,
                                      rv.results, results, debate,
                                      build_output(results, debate))
    /\ UNCHANGED <<now, maxRetries, last, orchVars, grants, procVars, dbt,
                   clock, qcall, todoRet, cmp, recov, qprocs, gate, audit>>

\* the wall clock moves on by a third of the cooldown: time.time() as the
\* state store writes it (now) and datetime.now() as the quota monitor
\* reads it (clock)
CompletionTick ==
    /\ comp.op = "hook"
    /\ now < MaxTime
    /\ now' = now + 1
    /\ clock' = clock + ClockStep
    /\ UNCHANGED <<files, maxRetries, last, orchVars, grants, procVars, dbt,
                   quotas, qfile, qcall, todoRet, lateVars>>

NoCompletion ==
    [step |-> "none", session_id |-> "", todos |-> <<>>,
     todo_state |-> TodoState(FALSE, FALSE, 0, 0), review_count |-> 0,
     adapters |-> <<>>, reviews |-> <<>>, results |-> <<>>,
     debate |-> NoDebate, ret |-> NoOutput]

InitHook(cfgs, qfiles) ==
    /\ InitFiles
    /\ maxRetries = DefaultMaxRetries
    /\ rc = NoResolve
    /\ dbt = NoDebate
    /\ todoRet = NoTodoRet
    /\ quotas = EmptyMap
    /\ clock = 0
    /\ qcall = NoQuotaCall
    /\ qfile \in qfiles
    /\ cmp = Idle
    /\ recov = Idle
    /\ qprocs = Idle
    /\ gate = Idle
    /\ audit = <<>>
    /\ comp \in {[op |-> "hook", cfg |-> c, calls |-> 0, dispatches |-> 0,
                  last |-> NoCompletion] : c \in cfgs}

\* the adapters a call made now would ask, and whether it would debate
AdaptersNow(installed) ==
    completion_init(qfile, comp.cfg, installed, clock).adapters

DebatesNow(s, todos, installed, behaviour, order, error) ==
    /\ completion_gate(files, comp.cfg, s, todos, now).step = "review"
    /\ debate_called(comp.cfg,
           completion_reviews(comp.cfg,
               completion_init(qfile, comp.cfg, installed, clock).quotas,
               installed, behaviour, order, error, clock).results)

\* one call with every input that can matter to it: B1 is what an adapter
\* may do in the review and B2 in the debate
HookCall(todoLists, installs, B1, errors, B2) ==
    \E s \in HookSessions, todos \in todoLists, installed \in installs,
       order \in CompletionOrders, error \in errors :
       \E behaviour \in BehavioursOf(AdaptersNow(installed), B1) :
          /\ Len(AdaptersNow(installed)) < 2 => order = ExternalAdapters
          /\ \E answers \in
                 IF DebatesNow(s, todos, installed, behaviour, order, error)
                 THEN AnswersOf(AdaptersNow(installed), B2,
                                comp.cfg.max_rounds)
                 ELSE {NoAnswers} :
                CompletionOrchestrate(s, todos, installed, behaviour, order,
                                      error, answers)

\* ---- one call in full: every severity, both orders, debate or not
FullConfigs ==
    {CompletionConfig(a, b, DefaultMaxReviews, d, m) :
        a \in BOOLEAN, b \in BOOLEAN, d \in {DebateDisabled, AllTriggers},
        m \in 1..CompletionRounds}

\* no quota file yet, or the file left by a process in which gemini hit a
\* quota error at time 0
QuotaFilesLeft ==
    {NoQuotaFile,
     dump_state(record_failure(EmptyMap, "gemini",
                               <<"q", "u", "o", "t", "a">>, 0), 0)}

DebateBehaviours ==
    {b \in Behaviours :
        b.raises \/ ~b.result.success
            \/ b.result.severity \in {"OK", "CRITICAL"}}

AllCompleted == <<"completed">>
OneErrorText == {<<"t", "i", "m", "e", "o", "u", "t">>}

InitFinish == InitHook(FullConfigs, QuotaFilesLeft)

NextFinish ==
    \/ /\ comp.calls < 1
       /\ HookCall({AllCompleted, <<"pending">>},
                   SUBSET Range(ExternalAdapters), Behaviours, OneErrorText,
                   DebateBehaviours)
    \/ CompletionTick

SpecFinish == InitFinish /\ [][NextFinish]_vars

\* the successful external outcomes of the last call's review
ExternalOutcomes ==
    {j \in 1..Len(comp.last.reviews) :
        /\ comp.last.reviews[j].success
        /\ comp.last.reviews[j].adapter_name # "claude_self"}

\* the final severity of the last call: the debate's when a debate ran,
\* otherwise the highest of the successful external outcomes
FinalSeverity ==
    IF comp.last.debate.op = "run_debate"
    THEN comp.last.debate.ret.final_severity
    ELSE IF ExternalOutcomes # {}
    THEN Highest(SeveritySet(comp.last.reviews, ExternalOutcomes))
    ELSE "OK"

\* C22: on an orchestrate call that ran the review, continue is false iff
\* the final severity (the debate's when a debate ran, otherwise the
\* highest severity of the successful external outcomes) is CRITICAL; with
\* no external agent or with every agent failing continue is true.
C22_BlocksOnCritical ==
    (comp.op = "hook" /\ comp.last.step = "reviewed") =>
       /\ FinalSeverity \in Severities
       /\ comp.last.ret.continue = (FinalSeverity # "CRITICAL")
       /\ comp.last.adapters = <<>> => comp.last.ret.continue
       /\ ExternalOutcomes = {} => comp.last.ret.continue

\* a debate between two agents that had said HIGH at most ended CRITICAL
\* and the call returned continue false
C22_Witness ==
    /\ comp.op = "hook"
    /\ comp.last.step = "reviewed"
    /\ comp.last.debate.op = "run_debate"
    /\ Len(comp.last.adapters) = 2
    /\ Highest(SeveritySet(comp.last.reviews, ExternalOutcomes)) = "HIGH"
    /\ FinalSeverity = "CRITICAL"
    /\ comp.last.ret.continue = FALSE

\* ---- a session's calls one after another: gemini alone, debate off
SessionConfigs ==
    {CompletionConfig(TRUE, TRUE, m, DebateDisabled, CompletionRounds) :
        m \in 1..MaxReviews}

ReviewBehaviours ==
    {b \in Behaviours : ~b.raises /\ b.result.severity = "OK"}

InitSession == InitHook(SessionConfigs, {NoQuotaFile})

NextSession ==
    \/ /\ comp.calls < MaxCalls
       /\ HookCall({AllCompleted, <<"pending">>}, {{"gemini"}},
                   ReviewBehaviours, ErrorTexts, DebateBehaviours)
    \/ CompletionTick

SpecSession == InitSession /\ [][NextSession]_vars

\* C26: for one session, with no reset or cleanup in between, at most
\* max_reviews orchestrate calls dispatch a completion review, however the
\* todo lists alternate between incomplete and all-completed.
C26_AtMostMaxReviews ==
    comp.op = "hook" => comp.dispatches <= comp.cfg.max_reviews

\* ------------------------------------- the state store, one call at a time
\* The store as earlier calls left it: each namespace file of each session
\* is absent or holds what the store's own operations wrote at time 0; one
\* operation is then called on it, at any later time.
Written(state_type) ==
    LET s == CHOOSE x \in Sessions : TRUE
        f0 == [x \in Sessions |-> [t \in StateTypes |-> NoFile]]
        f1 == CASE state_type = "retry" ->
                     increment_retry_count(
                         increment_retry_count(f0, s, "code").files,
                         s, "plan").files
                [] state_type = "debounce" ->
                     update_last_call_time(
                         update_last_call_time(f0, s, "code", 0),
                         s, "plan", 0)
                [] state_type = "override" -> set_override(f0, s, 1, 0)
                [] OTHER ->
                     increment_completion_review_count(f0, s, 0).files
    IN  f1[s][state_type]

StoresLeft ==
    {[s \in Sessions |-> [t \in StateTypes |->
         IF <<s, t>> \in W THEN Written(t) ELSE NoFile]] :
        W \in SUBSET (Sessions \X StateTypes)}

GetRetryCount(s, g) ==
    /\ last' = Call("get_retry_count", s, g, 0, FALSE,
                    get_retry_count(files, s, g))
    /\ UNCHANGED <<compVars, files, now, maxRetries, orchVars, grants,
                   procVars>>

IncrementRetryCount(s, g) ==
    /\ \E r \in {increment_retry_count(files, s, g)} :
          /\ files' = r.files
          /\ last' = Call("increment_retry_count", s, g, 0, FALSE, r.ret)
    /\ UNCHANGED <<compVars, now, maxRetries, orchVars, grants, procVars>>

ResetRetryCount(s, g) ==
    /\ files' = reset_retry_count(files, s, g)
    /\ last' = Call("reset_retry_count", s, g, 0, FALSE, 0)
    /\ UNCHANGED <<compVars, now, maxRetries, orchVars, grants, procVars>>

GetLastCallTime(s, g) ==
    /\ last' = Call("get_last_call_time", s, g, 0, FALSE,
                    get_last_call_time(files, s, g))
    /\ UNCHANGED <<compVars, files, now, maxRetries, orchVars, grants,
                   procVars>>

InitLeft ==
    /\ files \in StoresLeft
    /\ now \in 0..MaxTime
    /\ last = NoCall
    /\ out = NoOut
    /\ blockCalls = [s \in Sessions |-> [g \in Stages |-> 0]]
    /\ grants = [s \in Sessions |-> [n |-> 0, trues |-> 0]]
    /\ pc = [p \in Procs |-> "idle"]
    /\ loc = [p \in Procs |-> EmptyMap]
    /\ rets = <<>>
    /\ call = [p \in Procs |-> NoCall]
    /\ lock = [s \in Sessions |-> [t \in StateTypes |-> 0]]
    /\ InitComp
    /\ maxRetries = DefaultMaxRetries
    /\ rc = NoResolve

\* no call of the store has been made yet
NotCalled == last.op = "none" /\ todoRet.op = "none"

NextLeft ==
    \/ NotCalled /\ \E s \in Sessions, g \in Stages : GetRetryCount(s, g)
    \/ NotCalled /\ \E s \in Sessions, g \in Stages : IncrementRetryCount(s, g)
    \/ NotCalled /\ \E s \in Sessions, g \in Stages : ResetRetryCount(s, g)
    \/ NotCalled /\ \E s \in Sessions, g \in Stages : GetLastCallTime(s, g)
    \/ NotCalled /\ \E s \in Sessions, g \in Stages : UpdateLastCallTime(s, g)
    \/ NotCalled /\ \E s \in Sessions, g \in Stages, w \in Windows :
                        ShouldDebounce(s, g, w)
    \/ NotCalled /\ \E s \in Sessions, n \in 0..MaxSkip : SetOverride(s, n)
    \/ NotCalled /\ \E s \in Sessions : CheckAndConsumeOverride(s)
    \/ NotCalled /\ \E s \in Sessions : CleanupSession(s)

SpecLeft == InitLeft /\ [][NextLeft]_vars

\* the namespace an operation of the store works on
NamespaceOf(op) ==
    CASE op \in {"get_retry_count", "increment_retry_count",
                 "reset_retry_count"} -> "retry"
      [] op \in {"get_last_call_time", "update_last_call_time",
                 "should_debounce"} -> "debounce"
      [] OTHER -> "override"

KeyedOps ==
    {"get_retry_count", "increment_retry_count", "reset_retry_count",
     "get_last_call_time", "update_last_call_time", "should_debounce",
     "set_override", "check_and_consume_override"}

\* two processes increment retry counts of one session, each for a stage
NextStages ==
    \/ \E p \in Procs, s \in HookSessions, g \in Stages :
          Begin(p, "increment_retry_count", s, g)
    \/ \E p \in Procs : Acquire(p)
    \/ \E p \in Procs : Read(p)
    \/ \E p \in Procs : Write(p)

SpecStages == InitConc /\ [][NextStages]_vars

\* what an operation on namespace ns of (s, g) must leave alone
Framed(s, g, ns) ==
    /\ \A s2 \in Sessions \ {s} : files'[s2] = files[s2]
    /\ \A t \in StateTypes \ {ns} : files'[s][t] = files[s][t]
    /\ ns \in {"retry", "debounce"} =>
          \A g2 \in Stages \ {g} :
             /\ (g2 \in DOMAIN read_state(files', s, ns))
                   = (g2 \in DOMAIN read_state(files, s, ns))
             /\ Get(read_state(files', s, ns), g2, None)
                   = Get(read_state(files, s, ns), g2, None)

\* a call made alone, or the write of a call made by a process
C33_Step ==
    /\ last'.op \in KeyedOps =>
          Framed(last'.session, last'.stage, NamespaceOf(last'.op))
    /\ \A p \in Procs :
          (pc[p] = "write" /\ pc'[p] = "idle") =>
             Framed(call[p].session, call[p].stage, NamespaceOf(call[p].op))

\* C33: every retry, debounce or override operation of the state store on
\* (session s, stage g) leaves unchanged the records of every other
\* session, the other namespaces of s, and the entries of every other stage
\* in the same namespace of s.
C33_Frame == [][C33_Step]_vars

C34_Step ==
    todoRet'.op = "cleanup_session" =>
       LET s == todoRet'.session_id
       IN  /\ \A g \in Stages :
                 /\ get_retry_count(files', s, g) = 0
                 /\ get_last_call_time(files', s, g) = None
                 /\ \A w \in Windows :
                       ~should_debounce(files', s, g, w, now')
           /\ ~check_and_consume_override(files', s).ret
           /\ get_completion_review_count(files', s) = 0
           /\ \A s2 \in Sessions \ {s} : files'[s2] = files[s2]

\* C34: after cleanup_session(s), for session s get_retry_count is 0 for
\* every stage, get_last_call_time is None (so should_debounce is false),
\* check_and_consume_override returns false and
\* get_completion_review_count is 0, while the records of every other
\* session are unchanged.
C34_Cleanup == [][C34_Step]_vars

\* s1 was cleaned up at time 0 and s2 still holds all four files
C34_Witness ==
    /\ todoRet.op = "cleanup_session"
    /\ todoRet.session_id = "s1"
    /\ now = 0
    /\ \A t \in StateTypes : ~files["s1"][t].exists /\ files["s2"][t].exists
    /\ get_retry_count(files, "s2", "plan") = 1
    /\ should_debounce(files, "s2", "code", 1, now)

\* --------------------------- orchestrate calls of one session, in processes
\* Each hook process serves one stage ("code" hooks and "plan" hooks of the
\* same session can run at the same time). A call runs as far as the retry
\* logic's get_retry_count in one step; increment_retry_count then reads
\* the retry file under the lock, releases it, and writes under the lock.
StageOf(p) == IF p = 1 THEN "code" ELSE "plan"

NoRetryCall ==
    [pc |-> "idle", stage |-> "code", decision |-> "none", state |-> EmptyMap]

\* orchestrate up to "if retry_count < max_retries"
RetryOrchestrate(p, behaviour) ==
    /\ gate[p].pc \in {"idle", "done"}
    /\ \E o \in {check_override(files, GateSession, DefaultConfig)} :
          IF o.ret \/ check_debounce(o.files, GateSession, StageOf(p),
                                     DefaultConfig, now)
          THEN /\ files' = o.files
               /\ gate' = [gate EXCEPT ![p] =
                              [NoRetryCall EXCEPT !.pc = "done",
                                                  !.stage = StageOf(p),
                                                  !.decision = "continue"]]
          ELSE \E f1 \in {update_last_call_time(o.files, GateSession,
                                                StageOf(p), now)} :
               \E r \in {orchestrate_review(
                            f1, GateSession, StageOf(p), DefaultConfig,
                            [adapters |-> GateAdapters,
                             results |-> run_parallel_reviews(
                                 GateAdapters,
                                 DefaultConfig.parallel_execution,
                                 behaviour, <<1>>)],
                            maxRetries)} :
                  /\ files' = f1
                  /\ gate' = [gate EXCEPT ![p] =
                                 [NoRetryCall EXCEPT
                                     !.pc = IF r.decision = "block"
                                            THEN "increment_read"
                                            ELSE "done",
                                     !.stage = StageOf(p),
                                     !.decision = r.decision]]
    /\ UNCHANGED <<now, maxRetries, last, out, blockCalls, grants, procVars,
                   rc, dbt, quotaVars, todoRet, cmp, recov, comp, qprocs,
                   audit>>

\* increment_retry_count: state = self._read_state(session_id, "retry")
RetryRead(p) ==
    /\ gate[p].pc = "increment_read"
    /\ gate' = [gate EXCEPT ![p].pc = "increment_write",
                            ![p].state = read_state(files, GateSession,
                                                    "retry")]
    /\ UNCHANGED <<coreVars, dbt, quotaVars, todoRet, cmp, recov, comp,
                   qprocs, audit>>

\* state[stage] = state.get(stage, 0) + 1; self._write_state(...); the
\* call returns "block"
RetryWrite(p) ==
    /\ gate[p].pc = "increment_write"
    /\ files' = write_state(files, GateSession, "retry",
                    Put(gate[p].state, gate[p].stage,
                        Get(gate[p].state, gate[p].stage, 0) + 1))
    /\ gate' = [gate EXCEPT ![p].pc = "done"]
    /\ UNCHANGED <<now, maxRetries, last, out, blockCalls, grants, procVars,
                   rc, dbt, quotaVars, todoRet, cmp, recov, comp, qprocs,
                   audit>>

InitRetry ==
    /\ InitFiles
    /\ maxRetries = DefaultMaxRetries
    /\ rc = NoResolve
    /\ dbt = NoDebate
    /\ IdleQuota
    /\ todoRet = NoTodoRet
    /\ cmp = Idle
    /\ recov = Idle
    /\ comp = Idle
    /\ qprocs = Idle
    /\ gate = [p \in Procs |-> NoRetryCall]
    /\ audit = <<>>

NextRetry ==
    \/ \E p \in Procs, behaviour \in [Range(GateAdapters) -> Behaviours] :
          RetryOrchestrate(p, behaviour)
    \/ \E p \in Procs : RetryRead(p)
    \/ \E p \in Procs : RetryWrite(p)
    \/ GateTick

SpecRetry == InitRetry /\ [][NextRetry]_vars

\* a call made alone changes the count of its (session, stage) by one when
\* it returns "block" and not at all otherwise; no step of a call made in
\* a process lowers a count, and a count changes only in the write of a
\* call of its stage that returns "block", by one
C36_Step ==
    /\ last'.op = "orchestrate" =>
          /\ \A s \in Sessions, g \in Stages :
                RetryCount(files', s, g) =
                   IF s = last'.session /\ g = last'.stage
                                        /\ out'.decision = "block"
                   THEN RetryCount(files, s, g) + 1
                   ELSE RetryCount(files, s, g)
          /\ out'.decision \in {"block", "continue"}
    /\ \A s \in Sessions, g \in Stages :
          (/\ gate # Idle
           /\ RetryCount(files', s, g) # RetryCount(files, s, g))
          => /\ RetryCount(files', s, g) = RetryCount(files, s, g) + 1
             /\ \E p \in Procs :
                   /\ gate[p].pc = "increment_write"
                   /\ gate'[p].pc = "done"
                   /\ gate[p].stage = g
                   /\ gate[p].decision = "block"

\* C36: across orchestrate calls the retry count of a (session, stage)
\* never decreases and changes only on a call that returns "block", by
\* exactly one; a call that returns "continue" neither increments nor
\* resets it.
C36_RetryCount == [][C36_Step]_vars

\* ------------------------- which agents the two orchestrators dispatch to
\* ReviewOrchestrator.__init__: gemini, then copilot, each if it is in
\* enabled_adapters and the adapter itself is available (installed: API
\* key or CLI found)
review_adapters(enabled, installed) ==
    SelectSeq(AdapterNames,
              LAMBDA name : name \in enabled /\ name \in installed)

\* enabled_adapters when config.json does not name any
DefaultEnabled == {"gemini", "copilot"}

\* ReviewOrchestrator() followed by orchestrate(stage, hook_input), on a
\* machine where a quota file may have been left (the first such call)
ReviewHook(s, g, installed, behaviour, order) ==
    /\ comp.op = "hook"
    /\ out = NoOut
    /\ Orchestrate(s, g, DefaultConfig,
                   review_adapters(DefaultEnabled, installed),
                   behaviour, order)

EligibleConfigs ==
    {CompletionConfig(FALSE, TRUE, DefaultMaxReviews, DebateDisabled, 1)}

InitEligible == InitHook(EligibleConfigs, QuotaFilesLeft)

\* a review that passes and one that finds a HIGH issue
PlainReviews ==
    {b \in Returned : b.result.success /\ b.result.severity \in {"OK", "HIGH"}}

NextEligible ==
    \/ \E s \in HookSessions, g \in HookStages,
          installed \in SUBSET Range(AdapterNames), order \in Orders(2) :
          \E behaviour \in [Range(review_adapters(DefaultEnabled, installed))
                               -> PlainReviews] :
             /\ Len(review_adapters(DefaultEnabled, installed)) < 2
                   => order = <<1, 2>>
             /\ ReviewHook(s, g, installed, behaviour, order)
    \/ /\ comp.calls < 1
       /\ HookCall({AllCompleted}, SUBSET Range(ExternalAdapters), PlainReviews,
                   OneErrorText, PlainReviews)
    \/ CompletionTick

SpecEligible == InitEligible /\ [][NextEligible]_vars

\* QuotaMonitor.is_available for the agent, asked by a process started now
Eligible(a) == is_available(load_state(qfile, clock).quotas, a, clock).ret

\* a call of either orchestrator dispatches only to agents that the quota
\* monitor reports available at the time of the call
C31_Step ==
    /\ (last'.op = "orchestrate" /\ comp' = comp /\ now' = now)
          => \A a \in out'.dispatched : Eligible(a)
    /\ (comp.op = "hook" /\ comp'.calls > comp.calls
           /\ comp'.last.step \in {"reviewed", "raised"})
          => \A a \in Range(comp'.last.adapters) : Eligible(a)

\* the same for the calls of CompletionOrchestrator alone
C31_CompletionStep ==
    (comp.op = "hook" /\ comp'.calls > comp.calls
        /\ comp'.last.step \in {"reviewed", "raised"})
       => /\ \A a \in Range(comp'.last.adapters) : Eligible(a)
          /\ \A j \in 1..Len(comp'.last.reviews) :
                Eligible(comp'.last.reviews[j].adapter_name)

C31_CompletionOnly == [][C31_CompletionStep]_vars

\* C31: an agent for which QuotaMonitor.is_available is false at dispatch
\* time is never sent a review request, by ReviewOrchestrator as well as
\* by CompletionOrchestrator; only agents returned by
\* get_available_adapters are dispatched.
C31_OnlyEligible == [][C31_Step]_vars

\* ------------------------------------------ run_parallel_reviews checked
\* The inputs are drawn: the adapters of the orchestrator, the
\* parallel_execution setting, what each adapter's review does and the
\* order in which the futures complete.
InitParallel ==
    /\ InitFiles
    /\ maxRetries = DefaultMaxRetries
    /\ rc = NoResolve
    /\ dbt = NoDebate
    /\ IdleQuota
    /\ todoRet = NoTodoRet
    /\ cmp \in [op : {"drawn_reviews"},
                adapters : {<<>>, <<"gemini">>, <<"copilot">>, AdapterNames},
                parallel : BOOLEAN,
                behaviour : [Range(AdapterNames) -> Behaviours],
                order : Orders(Len(AdapterNames))]
    /\ recov = Idle
    /\ comp = Idle
    /\ qprocs = Idle
    /\ gate = Idle
    /\ audit = <<>>

RunParallelReviews ==
    /\ cmp.op = "drawn_reviews"
    /\ cmp' = [op |-> "run_parallel_reviews", adapters |-> cmp.adapters,
               parallel |-> cmp.parallel, behaviour |-> cmp.behaviour,
               order |-> cmp.order,
               results |-> run_parallel_reviews(
                               cmp.adapters, cmp.parallel, cmp.behaviour,
                               IF Len(cmp.adapters) > 1 THEN cmp.order
                               ELSE <<1>>)]
    /\ UNCHANGED <<coreVars, dbt, quotaVars, todoRet, recov, comp, qprocs,
                   gate, audit>>

NextParallel == RunParallelReviews

SpecParallel == InitParallel /\ [][NextParallel]_vars

\* the positions of the outcomes of adapter a
OutcomesOf(a) ==
    {j \in 1..Len(cmp.results) : cmp.results[j].adapter_name = a}

audit_events(r, session_id, stage) ==
    IF r.gate = "override"
    THEN <<[event_type |-> "override", session_id |-> session_id,
            stage |-> stage, llm_results |-> <<>>, final_severity |-> "none",
            continue_decision |-> TRUE]>>
    ELSE IF r.gate = "debounce" THEN <<>>
    ELSE <<[event_type |-> "review", session_id |-> session_id,
            stage |-> stage, llm_results |-> r.results,
            final_severity |-> r.final_severity,
            continue_decision |-> r.decision # "block"]>>

\* the calls whose audit lines are followed
MaxLines == 3

\* A hook process: ReviewOrchestrator() and orchestrate(stage, hook_input),
\* the file of the day opened in append mode for each event
AuditedOrchestrate(s, g, cfg, adapters, behaviour, order) ==
    /\ Len(audit) < MaxLines
    /\ \E r \in {orchestrate(files, s, g, cfg,
                             [adapters |-> adapters,
                              results |-> run_parallel_reviews(
                                  adapters, cfg.parallel_execution,
                                  behaviour, order)],
                             now, maxRetries)} :
          /\ files' = r.files
          /\ out' = Out(r, cfg, SkipCount(files, s))
          /\ last' = Call("orchestrate", s, g, 0, FALSE, 0)
          /\ blockCalls' = IF r.decision = "block"
                           THEN [blockCalls EXCEPT ![s][g] = @ + 1]
                           ELSE blockCalls
          /\ audit' = audit \o audit_events(r, s, g)
    /\ UNCHANGED <<now, maxRetries, grants, procVars, dbt, quotaVars,
                   todoRet, cmp, recov, comp, qprocs, gate>>

InitAudit ==
    /\ InitStore
    /\ maxRetries = 1

NextAudit ==
    \/ Tick
    \/ \E s \in HookSessions, n \in 1..MaxSkip : HookSetOverride(s, n)
    \/ \E s \in HookSessions, g \in HookStages, b \in Behaviours :
          AuditedOrchestrate(s, g, DefaultConfig, <<"gemini">>,
                             [a \in {"gemini"} |-> b], <<1>>)

SpecAudit == InitAudit /\ [][NextAudit]_vars

\* the line the call of this step appended describes the call
Describes(e) ==
    /\ e.session_id = last'.session
    /\ e.stage = last'.stage
    /\ e.event_type = (IF out'.gate = "review" THEN "review"
                       ELSE IF out'.gate = "override" THEN "override"
                       ELSE "debounce")
    /\ out'.gate = "review" =>
          /\ e.llm_results = out'.results
          /\ e.final_severity = out'.final_severity
          /\ e.continue_decision = (out'.decision # "block")

C35_Step ==
    /\ SubSeq(audit', 1, Len(audit)) = audit
    /\ last'.op = "orchestrate" =>
          /\ Len(audit') = Len(audit) + 1
          /\ Describes(audit'[Len(audit')])

\* the same, a call that the debounce gate skips appending nothing
C35_SkipStep ==
    /\ SubSeq(audit', 1, Len(audit)) = audit
    /\ last'.op = "orchestrate" =>
          IF out'.gate = "debounce" THEN audit' = audit
          ELSE /\ Len(audit') = Len(audit) + 1
               /\ Describes(audit'[Len(audit')])

C35_ExceptDebounce == [][C35_SkipStep]_vars

\* C35: every orchestrate call appends exactly one record to the audit log
\* describing its decision (override skip, debounce skip, or review with
\* per-agent outcomes, resolved severity and whether continuation was
\* blocked), and records already written are never modified or removed.
C35_OneRecordEach == [][C35_Step]_vars

\* ------------------------------------------- an exhausted agent comes back
\* The monitor of SpecQuota with time passing and is_available asked again
\* and again (every new hook process asks it for each agent). A failure is
\* recorded only while the end of its cooldown lies within the clock's
\* range.
RecordFailureEarly(a, error) ==
    /\ clock + CooldownMinutes <= MaxClock
    /\ RecordFailure(a, error)

NextExpiry ==
    \/ Elapse
    \/ \E a \in QuotaAgents : RecordSuccess(a)
    \/ \E a \in QuotaAgents, error \in ErrorTexts : RecordFailureEarly(a, error)
    \/ \E a \in QuotaAgents : IsAvailable(a)

SpecExpiry ==
    /\ InitQuota
    /\ [][NextExpiry]_vars
    /\ WF_vars(Elapse)
    /\ \A a \in QuotaAgents : WF_vars(IsAvailable(a))

Exhausted(a) == a \in DOMAIN quotas /\ quotas[a].status = "exhausted"

\* the latest call was is_available(a) and it returned true
AnsweredAvailable(a) ==
    /\ qcall.op = "is_available"
    /\ qcall.adapter_name = a
    /\ qcall.ret

\* the latest call recorded a failure of a
FailedAgain(a) == qcall.op = "record_failure" /\ qcall.adapter_name = a

C37_HasExpiry ==
    \A a \in QuotaAgents : Exhausted(a) => quotas[a].cooldown_until # None

\* C37: in every reachable state status = EXHAUSTED implies that a cooldown
\* end time is set, and an exhausted agent for which no further failure is
\* recorded is eventually reported available by is_available.
C37_ExhaustedExpires ==
    /\ []C37_HasExpiry
    /\ \A a \in QuotaAgents :
          Exhausted(a) ~> (AnsweredAvailable(a) \/ FailedAgain(a))

\* gemini was exhausted by three failures in a row and is_available has
\* answered true for it after the cooldown
C37_Witness ==
    /\ AnsweredAvailable("gemini")
    /\ "gemini" \in DOMAIN quotas
    /\ quotas["gemini"].failure_count >= 3
    /\ quotas["gemini"].success_count = 0
    /\ quotas["gemini"].status = "unknown"
    /\ quotas["gemini"].cooldown_until = None
    /\ clock >= quotas["gemini"].last_failure + CooldownMinutes

\* ------------------------------------------- the round number returned
\* the loop ended because the round asked nobody (break)
EndedEarly ==
    /\ dbt.pc = "returned"
    /\ ~dbt.ret.consensus_reached
    /\ dbt.executed < dbt.max_rounds

\* the same for the calls in which every round asked somebody
C38_FullRounds ==
    (dbt.op = "run_debate" /\ dbt.pc = "returned" /\ ~EndedEarly)
       => dbt.ret.round_num = dbt.executed + 1

\* C38: the round_num of the DebateRound returned by run_debate is the
\* number of the last debate round that was actually executed (round 1
\* being the initial review), also when the loop ends early because no
\* agent had another agent's outcome to respond to.
C38_LastExecutedRound ==
    (dbt.op = "run_debate" /\ dbt.pc = "returned")
       => dbt.ret.round_num = dbt.executed + 1

\* C39: a failed outcome (success false) produced in a debate round is
\* never shown as a reviewer opinion to another agent in the next round;
\* only successful outcomes are shown (the initial results handed to
\* run_debate are all successful here).
C39_OnlySuccessfulShown ==
    dbt.op = "run_debate" =>
       \A a \in Range(dbt.adapters) :
          \A j \in 1..Len(dbt.shown[a]) : dbt.shown[a][j].success

====
